---- MODULE Spec2Model ----
(***************************************************************************)
(* Model of the ca-sim bridge (apps/bridge): the session registry, the     *)
(* per-session run, the autoplay interval, the disconnect (TTL) timeout    *)
(* and the WebSocket connections whose handlers close over one session.    *)
(*                                                                         *)
(* The reference engine is a pure function of (config, tick); a frame is   *)
(* therefore represented by the run id, the tick and the seed of the       *)
(* config its simulator was built from.                                    *)
(***************************************************************************)
EXTENDS Integers, Sequences, FiniteSets, TLC

\* ---- bounds of the model -------------------------------------------------
MaxConns == 3       \* WebSocket connections accepted over one behaviour
MaxSessions == 2    \* SessionState objects created over one behaviour
MaxRuns == 2        \* runs started (randomUUID calls) over one behaviour
MaxTick == 2        \* largest simulator tick explored
MaxEngTick == 3     \* ticks one engine simulator is stepped through
MaxEngSeed == 3     \* seeds of the small worlds
MaxGrid == 4        \* widths and heights of the grids whose topology is computed
MaxBlockSeed == 100 \* seeds of the 11x11 single-block worlds
MaxTriadSeed == 12  \* seeds of the 128x128 triad worlds

\* ---- program constants ---------------------------------------------------
DEFAULT_SEED == 42
U24 == 16777216             \* MASK_U24 + 1
PRIME_U24 == 2610411        \* 0x27d4eb
BIAS_U24 == 374761
SALT_A == 10368889          \* 0x9e3779
SALT_B == 8776650           \* 0x85ebca
SALT_C == 12759726          \* 0xc2b2ae
FNV_BASIS_U24 == 8461469    \* 0x811c9d
FIXED_AGING_DRAIN10 == 1
U16 == 65536                \* a Uint16Array element wraps at 2^16

\* ---- input domains -------------------------------------------------------
ClientIds == {1}
ConnIds == 1..MaxConns
SessIds == 1..MaxSessions

NoSeed == -1          \* field absent (undefined)
NoTicks == -99        \* field absent (undefined)
SeedInputs == {NoSeed, 7}
\* step.ticks in halves: 0, 1.5, 2 and absent
TicksInputs == {NoTicks, 0, 3, 4}
BackendInputs == {"undefined", "bend-rs"}

\* ---- null values (typed) -------------------------------------------------
NoSim == [tick |-> -1, seed |-> 0]
NoFrame == [runId |-> 0, tick |-> -1, seed |-> 0]

Max(a, b) == IF a >= b THEN a ELSE b

Min(a, b) == IF a <= b THEN a ELSE b

\* ---- contracts: configs and normalizeSimConfig ----------------------------
\* Numbers of the integer fields are integers (Math.floor leaves them as they
\* are); tickRateUi is held in tenths and initialAliveRatio in 1/10000.
\* Absent stands for a field that is undefined, NaN for a value that is not a
\* finite number (NaN itself, or a string in the JSON payload).
Absent == NoSeed
NaN == -77777

DEFAULT_CONSTANTS ==
  [maxEnergy10 |-> 50, startEnergy10 |-> 50, spawnEnergy10 |-> 50,
   threatPenalty10 |-> 10, allyBonus10 |-> 0, preyBonus10 |-> 0,
   agingDrain10 |-> 1]

DEFAULT_SIM_CONFIG ==
  [width |-> 128, height |-> 128, wrapWorld |-> TRUE, tickRateUi |-> 20,
   chunkTicks |-> 1, seed |-> DEFAULT_SEED, initMode |-> "single-block",
   initialAliveRatio |-> 2000, reproThreshold |-> 3,
   constants |-> DEFAULT_CONSTANTS]

\* a PartialSimConfig with every field absent
EmptyPartial ==
  [width |-> Absent, height |-> Absent, wrapWorld |-> "undefined",
   tickRateUi |-> Absent, chunkTicks |-> Absent, seed |-> Absent,
   initMode |-> "undefined", initialAliveRatio |-> Absent,
   reproThreshold |-> Absent,
   constants |-> [maxEnergy10 |-> Absent, startEnergy10 |-> Absent,
                  spawnEnergy10 |-> Absent, threatPenalty10 |-> Absent,
                  allyBonus10 |-> Absent, preyBonus10 |-> Absent,
                  agingDrain10 |-> Absent]]

\* the typed null of a session's config
NoConfig == [DEFAULT_SIM_CONFIG EXCEPT !.seed = 0]

\* value ?? fallback
Coalesce(value, fallback) == IF value = Absent THEN fallback ELSE value

isFinite(value) == value # NaN

\* Math.min(max, Math.max(min, value)): NaN stays NaN
clampNumber(value, min, max) ==
  IF value = NaN THEN NaN ELSE Min(max, Max(min, value))

positiveInt(value, fallback) ==
  LET next == IF isFinite(value) THEN value ELSE fallback
  IN IF next > 0 THEN next ELSE fallback

boundedInt(value, min, max, fallback) ==
  clampNumber(IF isFinite(value) THEN value ELSE fallback, min, max)

normalizeInitMode(value, fallback) ==
  IF value \in {"random", "clustered", "triad", "single-block"} THEN value
  ELSE fallback

normalizeSimConfig(input) ==
  LET source == input
      constantsSource == source.constants
      D == DEFAULT_SIM_CONFIG
      K == DEFAULT_CONSTANTS
      fixedAgingDrain10 == K.agingDrain10
      maxEnergy10 == boundedInt(Coalesce(constantsSource.maxEnergy10, K.maxEnergy10),
                                1, 10000, K.maxEnergy10)
      startEnergy10 == boundedInt(Coalesce(constantsSource.startEnergy10, K.startEnergy10),
                                  0, 10000, K.startEnergy10)
      spawnEnergy10 == boundedInt(Coalesce(constantsSource.spawnEnergy10, K.spawnEnergy10),
                                  0, 10000, K.spawnEnergy10)
  IN [width |-> positiveInt(Coalesce(source.width, D.width), D.width),
      height |-> positiveInt(Coalesce(source.height, D.height), D.height),
      wrapWorld |-> IF source.wrapWorld = "undefined" THEN D.wrapWorld
                    ELSE source.wrapWorld = "true",
      tickRateUi |-> clampNumber(Coalesce(source.tickRateUi, D.tickRateUi), 10, 50),
      chunkTicks |-> boundedInt(Coalesce(source.chunkTicks, D.chunkTicks), 1, 16,
                                D.chunkTicks),
      seed |-> positiveInt(Coalesce(source.seed, D.seed), D.seed),
      initMode |-> normalizeInitMode(source.initMode, D.initMode),
      initialAliveRatio |->
        clampNumber(Coalesce(source.initialAliveRatio, D.initialAliveRatio), 0, 10000),
      reproThreshold |-> boundedInt(Coalesce(source.reproThreshold, D.reproThreshold),
                                    1, 8, D.reproThreshold),
      constants |->
        [maxEnergy10 |-> maxEnergy10,
         startEnergy10 |-> clampNumber(startEnergy10, 0, maxEnergy10),
         spawnEnergy10 |-> clampNumber(spawnEnergy10, 0, maxEnergy10),
         threatPenalty10 |->
           boundedInt(Coalesce(constantsSource.threatPenalty10, K.threatPenalty10),
                      0, 10000, K.threatPenalty10),
         allyBonus10 |->
           boundedInt(Coalesce(constantsSource.allyBonus10, K.allyBonus10),
                      0, 10000, K.allyBonus10),
         preyBonus10 |->
           boundedInt(Coalesce(constantsSource.preyBonus10, K.preyBonus10),
                      0, 10000, K.preyBonus10),
         agingDrain10 |-> fixedAgingDrain10]]

\* ---- raw payloads and parseControlMessage ---------------------------------
Msg(type, hasConfig, seed, backend, ticks2) ==
  [type |-> type, hasConfig |-> hasConfig, seed |-> seed,
   backend |-> backend, ticks2 |-> ticks2]

\* the config object of a start payload (the payloads explored set its seed)
ConfigOf(message) == [EmptyPartial EXCEPT !.seed = message.seed]

NullMsg == Msg("null", FALSE, NoSeed, "undefined", NoTicks)

RawPayloads ==
  {Msg("~badjson", FALSE, NoSeed, "undefined", NoTicks),
   Msg("bogus", FALSE, NoSeed, "undefined", NoTicks),
   Msg("start", FALSE, NoSeed, "undefined", NoTicks),
   Msg("pause", FALSE, NoSeed, "undefined", NoTicks),
   Msg("resume", FALSE, NoSeed, "undefined", NoTicks),
   Msg("stop", FALSE, NoSeed, "undefined", NoTicks)}
  \cup {Msg("start", TRUE, s, b, NoTicks) : s \in SeedInputs, b \in BackendInputs}
  \cup {Msg("step", FALSE, NoSeed, "undefined", t) : t \in TicksInputs}
  \cup {Msg("reset", h, s, "undefined", NoTicks) : h \in BOOLEAN, s \in SeedInputs}

parseControlMessage(raw) ==
  IF raw.type = "~badjson" THEN NullMsg
  ELSE IF raw.type = "start"
       THEN IF ~raw.hasConfig THEN NullMsg ELSE raw
  ELSE IF raw.type \in {"pause", "resume", "step", "reset", "stop"} THEN raw
  ELSE NullMsg

\* ---- control_state.ts ------------------------------------------------------
Decision(kind, ticks, text) == [kind |-> kind, ticks |-> ticks, text |-> text]

\* variant: the lower bound of one tick is forgotten
normalizeStepTicks_NoLowerBound(ticks2) ==
  (IF ticks2 = NoTicks THEN 2 ELSE ticks2) \div 2

normalizeStepTicks(ticks2) ==
  Max(1, (IF ticks2 = NoTicks THEN 2 ELSE ticks2) \div 2)

\* variant: a start always creates a new run
decideStart_AlwaysNew(snapshot) == Decision("start_new", 0, "")

\* case "start" of decideControl
decideStart(snapshot) ==
  IF ~snapshot.hasRun THEN Decision("start_new", 0, "")
  ELSE IF snapshot.phase = "paused" THEN Decision("resume", 0, "")
  ELSE Decision("noop", 0, "Start ignored: run is already active.")

decideControl(snapshot, message) ==
  CASE message.type = "start" -> decideStart(snapshot)
    [] message.type = "pause" ->
         IF snapshot.phase = "running" THEN Decision("pause", 0, "")
         ELSE Decision("noop", 0, "Pause ignored: run is not running.")
    [] message.type = "resume" ->
         IF snapshot.phase = "paused" THEN Decision("resume", 0, "")
         ELSE Decision("noop", 0, "Resume ignored: run is not paused.")
    [] message.type = "reset" ->
         IF ~snapshot.hasRun
         THEN Decision("error", 0, "No active run. Start a run before reset.")
         ELSE Decision("reset", 0, "")
    [] message.type = "step" ->
         IF ~snapshot.hasRun
         THEN Decision("error", 0, "No active run. Start a run before stepping.")
         ELSE Decision("step", normalizeStepTicks(message.ticks2), "")
    [] message.type = "stop" ->
         IF ~snapshot.hasRun THEN Decision("noop", 0, "Stop ignored: no active run.")
         ELSE Decision("stop", 0, "")

\* ---- state ---------------------------------------------------------------
VARIABLES
  sessions,   \* the registry: clientId -> session object (0: no entry)
  sess,       \* the SessionState objects, by object identity
  live,       \* per session object: number of live setInterval handles
  conns,      \* per connection: bound session, readyState, peer finished
  nextConn,   \* next connection to be accepted
  nextSid,    \* next SessionState object to be created
  nextRun,    \* next run id (randomUUID)
  ev,         \* the event handled by the last step
  atDetach,   \* per session: runId and tick when its transport was detached
  eng,        \* the engine under test: inputs, config, simulator state
  probe,      \* a pure function under test: its input and its result
  obj         \* a ReferenceSimulator object and the arrays its caller holds

vars == <<sessions, sess, live, conns, nextConn, nextSid, nextRun, ev, atDetach,
          eng, probe, obj>>
bridgeVars == <<sessions, sess, live, conns, nextConn, nextSid, nextRun, ev, atDetach>>

createEmptySession(clientId) ==
  [clientId |-> clientId, runId |-> 0, backend |-> "null", config |-> NoConfig,
   simulator |-> NoSim, phase |-> "idle", timer |-> FALSE, socket |-> 0,
   lastFrame |-> NoFrame, disconnectTimer |-> "null"]

NoConn == [sid |-> 0, readyState |-> "NONE", peerDone |-> FALSE]
NoDetach == [runId |-> -1, tick |-> -1]

\* ---- helpers over a handler context ---------------------------------------
\* A context carries what one handler invocation reads and writes:
\* S the session object, L its live interval count, C the connections,
\* out the messages sent so far, run the next run id, R the registry.
Ctx(S, L, C, out, run, R) ==
  [S |-> S, L |-> L, C |-> C, out |-> out, run |-> run, R |-> R]

hasRun(session) ==
  /\ session.runId # 0
  /\ session.backend # "null"
  /\ session.config # NoConfig
  /\ session.simulator # NoSim

send(x, ws, message) ==
  IF ws = 0 \/ x.C[ws].readyState # "OPEN" THEN x
  ELSE [x EXCEPT !.out = Append(@, [to |-> ws, m |-> message])]

InfoMsg(text) == [type |-> "info", message |-> text]
ErrorMsg(text) == [type |-> "error", message |-> text]
FrameMsg(frame) == [type |-> "frame", frame |-> frame]

sendInfo(x, ws, text) == send(x, ws, InfoMsg(text))
sendError(x, ws, text) == send(x, ws, ErrorMsg(text))

asStateMessage(session) ==
  [type |-> "state", phase |-> session.phase, hasRun |-> hasRun(session),
   runId |-> session.runId,
   tick |-> IF hasRun(session) THEN session.simulator.tick ELSE 0,
   backend |-> session.backend,
   seed |-> IF session.config = NoConfig THEN 0 ELSE session.config.seed]

emitState(x) == send(x, x.S.socket, asStateMessage(x.S))

\* variant: the frame is sent and not kept
emitFrame_NoCache(x, frame) ==
  send(x, x.S.socket, FrameMsg(frame))

emitFrame(x, frame) ==
  send([x EXCEPT !.S.lastFrame = frame], x.S.socket, FrameMsg(frame))

\* ReferenceSimulator: constructor and step (tick counter; state is a
\* function of the config and the tick)
ReferenceSimulator(config) == [tick |-> 0, seed |-> config.seed]
SimStep(sim) == [sim EXCEPT !.tick = @ + 1]

buildFrame(runId, sim) == [runId |-> runId, tick |-> sim.tick, seed |-> sim.seed]

emitInitialFrame(x) ==
  IF ~hasRun(x.S) THEN x
  ELSE emitFrame(x, buildFrame(x.S.runId, x.S.simulator))

RECURSIVE StepLoop(_, _)
StepLoop(x, n) ==
  IF n <= 0 THEN x
  ELSE LET stepped == [x EXCEPT !.S.simulator = SimStep(@)]
       IN StepLoop(emitFrame(stepped, buildFrame(stepped.S.runId, stepped.S.simulator)),
                   n - 1)

emitSteps(x, ticks) ==
  IF ~hasRun(x.S) THEN x
  ELSE StepLoop(x, Max(1, ticks))

clearTimer(x) ==
  IF ~x.S.timer THEN x
  ELSE [x EXCEPT !.L = @ - 1, !.S.timer = FALSE]

SocketOpen(x) == x.S.socket # 0 /\ x.C[x.S.socket].readyState = "OPEN"

\* variant: the previous timer is left running
startLoop_NoClear(x) ==
  IF ~hasRun(x.S) \/ x.S.phase # "running" THEN x
  ELSE IF ~SocketOpen(x) THEN x
  ELSE [x EXCEPT !.L = @ + 1, !.S.timer = TRUE]

startLoop(x) ==
  LET c == clearTimer(x) IN
  IF ~hasRun(c.S) \/ c.S.phase # "running" THEN c
  ELSE IF ~SocketOpen(c) THEN c
  ELSE [c EXCEPT !.L = @ + 1, !.S.timer = TRUE]


startNewRun(x, config, requestedBackend) ==
  LET a == IF requestedBackend # "undefined" /\ requestedBackend # "js"
           THEN sendInfo(x, x.S.socket, "Backend requested. Live bridge currently runs JS reference engine.")
           ELSE x
      b == [a EXCEPT !.S.runId = a.run, !.run = @ + 1, !.S.backend = "js",
                     !.S.config = config,
                     !.S.simulator = ReferenceSimulator(config),
                     !.S.phase = "running"]
  IN startLoop(emitInitialFrame(b))

\* variant: the simulator is not rebuilt
resetRun_KeepsSimulator(x) ==
  IF ~hasRun(x.S) THEN x
  ELSE LET a == emitInitialFrame(x)
       IN IF a.S.phase = "running" THEN startLoop(a) ELSE clearTimer(a)

resetRun(x) ==
  IF ~hasRun(x.S) THEN x
  ELSE LET a == emitInitialFrame([x EXCEPT !.S.simulator = ReferenceSimulator(x.S.config)])
       IN IF a.S.phase = "running" THEN startLoop(a) ELSE clearTimer(a)

\* variant: the config outlives the run
stopRun_KeepsConfig(x) ==
  [clearTimer(x) EXCEPT !.S.runId = 0, !.S.backend = "null",
                        !.S.simulator = NoSim, !.S.phase = "idle",
                        !.S.lastFrame = NoFrame]

stopRun(x) ==
  [clearTimer(x) EXCEPT !.S.runId = 0, !.S.backend = "null", !.S.config = NoConfig,
                        !.S.simulator = NoSim, !.S.phase = "idle",
                        !.S.lastFrame = NoFrame]

\* variant: the autoplay loop is not resumed on attach
attachConnection_NoResume(x, ws) ==
  LET a == IF x.S.disconnectTimer # "null"
           THEN [x EXCEPT !.S.disconnectTimer = "null"] ELSE x
      old == a.S.socket
      b == IF old # 0 /\ old # ws /\ a.C[old].readyState = "OPEN"
           THEN [a EXCEPT !.C[old].readyState = "CLOSING"] ELSE a
      c == [b EXCEPT !.S.socket = ws]
      d == emitState(sendInfo(c, ws, "Connected as client."))
  IN IF d.S.lastFrame # NoFrame THEN send(d, ws, FrameMsg(d.S.lastFrame)) ELSE d

attachConnection(x, ws) ==
  LET a == IF x.S.disconnectTimer # "null"
           THEN [x EXCEPT !.S.disconnectTimer = "null"] ELSE x
      old == a.S.socket
      b == IF old # 0 /\ old # ws /\ a.C[old].readyState = "OPEN"
           THEN [a EXCEPT !.C[old].readyState = "CLOSING"] ELSE a
      c == [b EXCEPT !.S.socket = ws]
      d == emitState(sendInfo(c, ws, "Connected as client."))
      e == IF d.S.lastFrame # NoFrame THEN send(d, ws, FrameMsg(d.S.lastFrame)) ELSE d
  IN IF e.S.phase = "running" THEN startLoop(e) ELSE e

disconnectConnection(x, ws) ==
  IF x.S.socket # ws THEN x
  ELSE clearTimer([x EXCEPT !.S.socket = 0])

scheduleSessionDrop(x) ==
  [x EXCEPT !.S.disconnectTimer = "pending"]

Snapshot(session) == [hasRun |-> hasRun(session), phase |-> session.phase]

handleControlMessage(x, message) ==
  LET decision == decideControl(Snapshot(x.S), message)
      done ==
        CASE decision.kind = "start_new" ->
               IF message.type # "start"
               THEN sendError(x, x.S.socket, "Invalid start payload.")
               ELSE LET a == startNewRun(x, normalizeSimConfig(ConfigOf(message)), message.backend)
                    IN sendInfo(a, a.S.socket, "Run started.")
          [] decision.kind = "resume" ->
               LET a == startLoop([x EXCEPT !.S.phase = "running"])
               IN sendInfo(a, a.S.socket, "Resumed.")
          [] decision.kind = "pause" ->
               LET a == clearTimer([x EXCEPT !.S.phase = "paused"])
               IN sendInfo(a, a.S.socket, "Paused.")
          [] decision.kind = "reset" ->
               LET a == resetRun(x)
               IN IF a.S.config # NoConfig
                  THEN sendInfo(a, a.S.socket, "Run reset.") ELSE a
          [] decision.kind = "step" ->
               LET a == emitSteps(x, decision.ticks)
               IN sendInfo(a, a.S.socket, "Stepped.")
          [] decision.kind = "stop" ->
               LET a == stopRun(x)
               IN sendInfo(a, a.S.socket, "Stopped.")
          [] decision.kind = "noop" -> sendInfo(x, x.S.socket, decision.text)
          [] decision.kind = "error" -> sendError(x, x.S.socket, decision.text)
  IN emitState(done)

\* ws.on("message")
onMessage(x, raw) ==
  LET message == parseControlMessage(raw) IN
  IF message = NullMsg
  THEN emitState(sendError(x, x.S.socket, "Invalid control message JSON."))
  ELSE handleControlMessage(x, message)

\* the setInterval callback of startAutoplayLoop, with the closures of startLoop
isPaused(x) == x.S.phase # "running" \/ ~SocketOpen(x)

\* variant: a fire makes up for a tick
onTick_CatchUp(x) ==
  IF ~SocketOpen(x) THEN clearTimer(x) ELSE emitSteps(x, 2)

onTick(x) ==
  IF ~SocketOpen(x) THEN clearTimer(x) ELSE emitSteps(x, 1)

onInterval(x) == IF isPaused(x) THEN x ELSE onTick(x)

\* ---- the event handled by the last step -----------------------------------
Event(kind, conn, raw) == [kind |-> kind, conn |-> conn, raw |-> raw]


\* the bridge after createBridgeServer: no session, no connection
BridgeInit ==
  /\ sessions = [c \in ClientIds |-> 0]
  /\ sess = [s \in SessIds |-> createEmptySession(0)]
  /\ live = [s \in SessIds |-> 0]
  /\ conns = [w \in ConnIds |-> NoConn]
  /\ nextConn = 1
  /\ nextSid = 1
  /\ nextRun = 1
  /\ ev = Event("init", 0, NullMsg)
  /\ atDetach = [s \in SessIds |-> NoDetach]

\* no engine and no function under test
Idle == [phase |-> "off"]

Init ==
  /\ BridgeInit
  /\ eng = Idle
  /\ probe = Idle
  /\ obj = Idle

\* write back the result x of a handler bound to session object sid
Commit(sid, x) ==
  /\ sess' = [sess EXCEPT ![sid] = x.S]
  /\ live' = [live EXCEPT ![sid] = x.L]
  /\ conns' = x.C
  /\ nextRun' = x.run
  /\ sessions' = x.R

CtxOf(sid) == Ctx(sess[sid], live[sid], conns, <<>>, nextRun, sessions)

\* wss.on("connection"): ensureSession, then attachConnection on connection ws
ensureSession(c) == IF sessions[c] # 0 THEN sessions[c] ELSE nextSid

onConnection(c, ws) ==
  LET sid == ensureSession(c)
      S0 == IF sessions[c] # 0 THEN sess[sid] ELSE createEmptySession(c)
      C0 == [conns EXCEPT ![ws] = [sid |-> sid, readyState |-> "OPEN",
                                   peerDone |-> FALSE]]
  IN attachConnection(Ctx(S0, live[sid], C0, <<>>, nextRun,
                           [sessions EXCEPT ![c] = sid]), ws)

Connect(c) ==
  /\ nextConn <= MaxConns
  /\ ensureSession(c) <= MaxSessions
  /\ Commit(ensureSession(c), onConnection(c, nextConn))
  /\ nextSid' = IF sessions[c] # 0 THEN nextSid ELSE nextSid + 1
  /\ nextConn' = nextConn + 1
  /\ atDetach' = [atDetach EXCEPT ![ensureSession(c)] = NoDetach]
  /\ ev' = Event("connection", nextConn, NullMsg)
  /\ UNCHANGED <<eng, probe, obj>>

\* ws.on("message"): a payload arrives on connection ws
CanReceive(ws) ==
  \/ conns[ws].readyState = "OPEN"
  \/ conns[ws].readyState = "CLOSING" /\ ~conns[ws].peerDone

InBounds(x) == x.run <= MaxRuns + 1 /\ x.S.simulator.tick <= MaxTick

Message(ws, raw) ==
  /\ CanReceive(ws)
  /\ LET x == onMessage(CtxOf(conns[ws].sid), raw)
     IN /\ InBounds(x)
        /\ Commit(conns[ws].sid, x)
  /\ ev' = Event("message", ws, raw)
  /\ UNCHANGED <<nextConn, nextSid, atDetach, eng, probe, obj>>

\* the peer closes (or the socket fails): readyState leaves OPEN, nothing more
\* is received on ws; the close event follows
PeerClose(ws) ==
  /\ conns[ws].readyState = "OPEN"
  /\ conns' = [conns EXCEPT ![ws].readyState = "CLOSING", ![ws].peerDone = TRUE]
  /\ ev' = Event("closing", ws, NullMsg)
  /\ UNCHANGED <<sessions, sess, live, nextConn, nextSid, nextRun, atDetach, eng, probe, obj>>

\* ws.on("close"): disconnectConnection, scheduleSessionDrop
onClose(x, ws) ==
  scheduleSessionDrop(disconnectConnection([x EXCEPT !.C[ws].readyState = "CLOSED"], ws))

CloseEvent(ws) ==
  /\ conns[ws].readyState = "CLOSING"
  /\ Commit(conns[ws].sid, onClose(CtxOf(conns[ws].sid), ws))
  /\ atDetach' = IF sess[conns[ws].sid].socket = ws
                 THEN [atDetach EXCEPT ![conns[ws].sid] =
                         [runId |-> sess[conns[ws].sid].runId,
                          tick |-> asStateMessage(sess[conns[ws].sid]).tick]]
                 ELSE atDetach
  /\ ev' = Event("close", ws, NullMsg)
  /\ UNCHANGED <<nextConn, nextSid, eng, probe, obj>>

\* one fire of a live autoplay interval of session object sid
AutoplayFire(sid) ==
  /\ live[sid] > 0
  /\ LET x == onInterval(CtxOf(sid))
     IN /\ InBounds(x)
        /\ Commit(sid, x)
  /\ ev' = Event("interval", 0, NullMsg)
  /\ UNCHANGED <<nextConn, nextSid, atDetach, eng, probe, obj>>

\* variant: a session that holds a run is kept
dropSession_KeepsRun(x) ==
  IF hasRun(x.S) THEN [x EXCEPT !.S.disconnectTimer = "null"]
  ELSE [clearTimer(x) EXCEPT !.S.disconnectTimer = "null", !.R[x.S.clientId] = 0]

dropSession(x) ==
  [clearTimer(x) EXCEPT !.S.disconnectTimer = "null", !.R[x.S.clientId] = 0]

\* the setTimeout callback of scheduleSessionDrop fires for session object sid
onDropTimeout(x) ==
  IF x.S.socket # 0 THEN [x EXCEPT !.S.disconnectTimer = "fired"]
  ELSE dropSession(x)

DropFire(sid) ==
  /\ sess[sid].disconnectTimer = "pending"
  /\ Commit(sid, onDropTimeout(CtxOf(sid)))
  /\ ev' = Event("timeout", 0, NullMsg)
  /\ UNCHANGED <<nextConn, nextSid, atDetach, eng, probe, obj>>

Next ==
  \/ \E c \in ClientIds : Connect(c)
  \/ \E ws \in ConnIds, raw \in RawPayloads : Message(ws, raw)
  \/ \E ws \in ConnIds : PeerClose(ws)
  \/ \E ws \in ConnIds : CloseEvent(ws)
  \/ \E sid \in SessIds : AutoplayFire(sid)
  \/ \E sid \in SessIds : DropFire(sid)

Spec == Init /\ [][Next]_vars

\* The bridge with its timers scheduled fairly: a live setInterval handle
\* keeps firing.  One payload of each kind is explored.
FairPayloads ==
  {Msg("~badjson", FALSE, NoSeed, "undefined", NoTicks),
   Msg("start", TRUE, NoSeed, "undefined", NoTicks),
   Msg("pause", FALSE, NoSeed, "undefined", NoTicks),
   Msg("resume", FALSE, NoSeed, "undefined", NoTicks),
   Msg("stop", FALSE, NoSeed, "undefined", NoTicks),
   Msg("step", FALSE, NoSeed, "undefined", NoTicks),
   Msg("reset", FALSE, NoSeed, "undefined", NoTicks)}

NextFair ==
  \/ \E c \in ClientIds : Connect(c)
  \/ \E ws \in ConnIds, raw \in FairPayloads : Message(ws, raw)
  \/ \E ws \in ConnIds : PeerClose(ws)
  \/ \E ws \in ConnIds : CloseEvent(ws)
  \/ \E sid \in SessIds : AutoplayFire(sid)
  \/ \E sid \in SessIds : DropFire(sid)

SpecFair ==
  Init /\ [][NextFair]_vars /\ \A sid \in SessIds : WF_vars(AutoplayFire(sid))

\* ---- the pure functions under test ------------------------------------------
\* snapshots and messages decideControl can be called with
Snapshots == [hasRun : BOOLEAN, phase : {"idle", "running", "paused"}]
ControlMessages == {parseControlMessage(raw) : raw \in RawPayloads} \ {NullMsg}

\* partial configs normalizeSimConfig can be called with: at most one field of
\* the config itself present, and any combination of constants
OneField ==
  {EmptyPartial}
  \cup {[EmptyPartial EXCEPT !.width = v] : v \in {0, 3, NaN}}
  \cup {[EmptyPartial EXCEPT !.height = v] : v \in {-4, 3, NaN}}
  \cup {[EmptyPartial EXCEPT !.wrapWorld = v] : v \in {"true", "false"}}
  \cup {[EmptyPartial EXCEPT !.tickRateUi = v] : v \in {0, -50, 30, 90, NaN}}
  \cup {[EmptyPartial EXCEPT !.chunkTicks = v] : v \in {0, 4, 20, NaN}}
  \cup {[EmptyPartial EXCEPT !.seed = v] : v \in {0, -7, 7, NaN}}
  \cup {[EmptyPartial EXCEPT !.initMode = v] :
          v \in {"random", "clustered", "triad", "single-block", "invalid-mode"}}
  \cup {[EmptyPartial EXCEPT !.initialAliveRatio = v] : v \in {-5000, 200, 20000, NaN}}
  \cup {[EmptyPartial EXCEPT !.reproThreshold = v] : v \in {0, 2, 9, NaN}}

ConstantInputs ==
  [maxEnergy10 : {Absent, 0, 5, 20000}, startEnergy10 : {Absent, 7, -3},
   spawnEnergy10 : {Absent, 3, 20000}, threatPenalty10 : {Absent, -2},
   allyBonus10 : {Absent, NaN}, preyBonus10 : {Absent, 20000},
   agingDrain10 : {Absent, 5}]

PartialInputs == {[p EXCEPT !.constants = k] : p \in OneField, k \in ConstantInputs}

DecideInputs ==
  {[phase |-> "input", fn |-> "decideControl", snapshot |-> sn, message |-> m] :
     sn \in Snapshots, m \in ControlMessages}

NormalizeInputs ==
  {[phase |-> "input", fn |-> "normalizeSimConfig", input |-> p] : p \in PartialInputs}

Decide ==
  /\ probe.phase = "input" /\ probe.fn = "decideControl"
  /\ probe' = [phase |-> "done", fn |-> probe.fn, snapshot |-> probe.snapshot,
               message |-> probe.message,
               result |-> decideControl(probe.snapshot, probe.message)]
  /\ UNCHANGED <<bridgeVars, eng, obj>>

Normalize ==
  /\ probe.phase = "input" /\ probe.fn = "normalizeSimConfig"
  /\ probe' = [phase |-> "done", fn |-> probe.fn, input |-> probe.input,
               result |-> normalizeSimConfig(probe.input)]
  /\ UNCHANGED <<bridgeVars, eng, obj>>


\* ---- engine: hash.ts ----------------------------------------------------------
\* a ^ b on four-bit numbers, bit by bit
XorNibble ==
  [a \in 0..15 |-> [b \in 0..15 |->
     ((a + b) % 2)
       + 2 * (((a \div 2) + (b \div 2)) % 2)
       + 4 * (((a \div 4) + (b \div 4)) % 2)
       + 8 * (((a \div 8) + (b \div 8)) % 2)]]

\* a ^ b on non-negative integers, four bits at a time
RECURSIVE BitXor(_, _)
BitXor(a, b) ==
  IF a = 0 THEN b
  ELSE IF b = 0 THEN a
  ELSE XorNibble[a % 16][b % 16] + 16 * BitXor(a \div 16, b \div 16)

\* (x * PRIME_U24 + BIAS_U24) & MASK_U24, the product taken in 12-bit halves
mixU24(hash, value) ==
  LET x == BitXor(hash, value % U24) % U24
      xl == x % 4096
      xh == x \div 4096
      pl == PRIME_U24 % 4096
      ph == PRIME_U24 \div 4096
      prod == (xl * pl + ((xh * pl + xl * ph) % 4096) * 4096) % U24
  IN (prod + BIAS_U24) % U24

hashU24(seed, a, b, c) ==
  mixU24(mixU24(mixU24(seed % U24, (a + SALT_A) % U24), (b + SALT_B) % U24),
         (c + SALT_C) % U24)

hashChoice(seed, a, b, c, length) ==
  IF length <= 0 THEN 0 ELSE hashU24(seed, a, b, c) % length

hashU24Mod(seed, a, b, c, mod) ==
  IF mod <= 0 THEN 0 ELSE hashU24(seed, a, b, c) % mod

\* a simulation state: types, energy10 and age, each indexed by 0..size-1
\* the loop over array[i..size-1], split in halves
RECURSIVE MixArray(_, _, _, _)
MixArray(hash, array, i, size) ==
  IF i >= size THEN hash
  ELSE IF size - i = 1 THEN mixU24(hash, array[i])
  ELSE LET mid == i + ((size - i) \div 2)
       IN CHOOSE h \in {MixArray(first, array, mid, size) :
                         first \in {MixArray(hash, array, i, mid)}} : TRUE

\* the digest as a number below 2^24 (its six hex digits are not modelled)
digestStateHex(state, size) ==
  CHOOSE h \in {MixArray(energies, state.age, 0, size) :
                  energies \in {MixArray(types, state.energy10, 0, size) :
                                  types \in {MixArray(FNV_BASIS_U24, state.types, 0, size)}}} :
    TRUE

\* ---- engine: neighbors.ts -----------------------------------------------------
OFFSETS == <<<<-1, -1>>, <<0, -1>>, <<1, -1>>, <<-1, 0>>, <<1, 0>>, <<-1, 1>>,
             <<0, 1>>, <<1, 1>>>>

\* variant: only the upper edge wraps
wrap_UpperOnly(value, size) ==
  IF value >= size THEN value - size ELSE value

wrap(value, size) ==
  IF value < 0 THEN value + size
  ELSE IF value >= size THEN value - size
  ELSE value

\* variant: off the grid, the nearest cell of the grid stands in
neighborOf_Nearest(config, idx, k) ==
  LET x == idx % config.width
      y == idx \div config.width
      nx == x + OFFSETS[k][1]
      ny == y + OFFSETS[k][2]
  IN IF config.wrapWorld
     THEN wrap(ny, config.height) * config.width + wrap(nx, config.width)
     ELSE Min(config.height - 1, Max(0, ny)) * config.width
            + Min(config.width - 1, Max(0, nx))

\* the neighbour of cell idx in slot k (1..8)
neighborOf(config, idx, k) ==
  LET x == idx % config.width
      y == idx \div config.width
      nx == x + OFFSETS[k][1]
      ny == y + OFFSETS[k][2]
  IN IF config.wrapWorld
     THEN wrap(ny, config.height) * config.width + wrap(nx, config.width)
     ELSE IF nx < 0 \/ ny < 0 \/ nx >= config.width \/ ny >= config.height
          THEN idx
          ELSE ny * config.width + nx

precomputeNeighbors(config) ==
  [idx \in 0..(config.width * config.height - 1) |->
     [k \in 1..8 |-> neighborOf(config, idx, k)]]

\* ---- engine: sim.ts, the tick ----------------------------------------------------
clampInt(value, min, max) == Min(max, Max(min, value))

beats(attacker, defender) ==
  \/ attacker = 2 /\ defender = 1
  \/ attacker = 1 /\ defender = 3
  \/ attacker = 3 /\ defender = 2

\* variant: a tie goes to the first of the tied types
pickTypeFromCounts_FirstLeader(c1, c2, c3, reproThreshold, seed, tick, idx) ==
  LET count == <<c1, c2, c3>>
      eligible == SelectSeq(<<1, 2, 3>>, LAMBDA t : count[t] >= reproThreshold)
      maxCount == Max(c1, Max(c2, c3))
      leaders == SelectSeq(eligible, LAMBDA t : count[t] = maxCount)
  IN IF Len(eligible) = 0 THEN 0 ELSE leaders[1]

pickTypeFromCounts(c1, c2, c3, reproThreshold, seed, tick, idx) ==
  LET count == <<c1, c2, c3>>
      eligible == SelectSeq(<<1, 2, 3>>, LAMBDA t : count[t] >= reproThreshold)
      maxCount == Max(-1, Max(IF c1 >= reproThreshold THEN c1 ELSE -1,
                              Max(IF c2 >= reproThreshold THEN c2 ELSE -1,
                                  IF c3 >= reproThreshold THEN c3 ELSE -1)))
      leaders == SelectSeq(eligible, LAMBDA t : count[t] = maxCount)
  IN IF Len(eligible) = 0 THEN 0
     ELSE IF Len(eligible) = 1 THEN eligible[1]
     ELSE IF Len(leaders) = 1 THEN leaders[1]
     ELSE leaders[hashChoice(seed, tick, idx, 17, Len(leaders)) + 1]

\* the number of neighbour slots of idx whose cell has a type in wanted
CountSlots(nb, idx, types, wanted) ==
  Cardinality({k \in 1..8 : types[nb[idx][k]] \in wanted})

\* variant: the drain is read from the config
agingDrain_FromConfig(config) == config.constants.agingDrain10

\* the aging drain of one tick
agingDrain(config) == FIXED_AGING_DRAIN10

\* variant: a newborn is charged the aging drain
spawnEnergy_Drained(config) ==
  clampInt(config.constants.spawnEnergy10 - 1, 0, config.constants.maxEnergy10)

\* the energy a newborn gets
spawnEnergy(config) ==
  clampInt(config.constants.spawnEnergy10, 0, config.constants.maxEnergy10)

\* variant: no ceiling on the energy of a survivor
capEnergy_NoCeiling(value, config) == Max(0, value)

\* the energy of an alive cell after the tick
capEnergy(value, config) == clampInt(value, 0, config.constants.maxEnergy10)

\* variant: a cell dies only below zero
dies_BelowZero(nextEnergy) == nextEnergy < 0

\* an alive cell dies when its energy is used up
dies(nextEnergy) == nextEnergy <= 0

\* the cell at idx after the tick: type, energy10, age, and whether it was
\* born or died
nextCell(current, config, nb, tick, idx) ==
  LET type == current.types[idx]
      K == config.constants
  IN IF type = 0
     THEN LET c1 == CountSlots(nb, idx, current.types, {1})
              c2 == CountSlots(nb, idx, current.types, {2})
              c3 == CountSlots(nb, idx, current.types, {3})
              spawnType == pickTypeFromCounts(c1, c2, c3, config.reproThreshold,
                                              config.seed, tick, idx)
          IN IF spawnType = 0
             THEN [type |-> 0, energy10 |-> 0, age |-> 0, born |-> FALSE, died |-> FALSE]
             ELSE [type |-> spawnType, energy10 |-> spawnEnergy(config) % U16,
                   age |-> 0, born |-> TRUE, died |-> FALSE]
     ELSE LET allies == CountSlots(nb, idx, current.types, {type})
              threats == CountSlots(nb, idx, current.types,
                                     {t \in 1..3 : beats(t, type)})
              prey == CountSlots(nb, idx, current.types,
                                  {t \in 1..3 : beats(type, t)})
              delta10 == threats * (-K.threatPenalty10) + allies * K.allyBonus10
                           + prey * K.preyBonus10 - agingDrain(config)
              nextEnergy == capEnergy(current.energy10[idx] + delta10, config)
          IN IF dies(nextEnergy)
             THEN [type |-> 0, energy10 |-> 0, age |-> 0, born |-> FALSE, died |-> TRUE]
             ELSE [type |-> type, energy10 |-> nextEnergy % U16,
                   age |-> (current.age[idx] + 1) % U16, born |-> FALSE, died |-> FALSE]

\* variant: the two counters are exchanged
computeMetrics_Swapped(state, size, births, deaths) ==
  LET pop(t) == Cardinality({i \in 0..(size - 1) : state.types[i] = t})
  IN [popEmpty |-> pop(0), popFire |-> pop(1), popWater |-> pop(2),
      popGrass |-> pop(3), births |-> deaths, deaths |-> births]

computeMetrics(state, size, births, deaths) ==
  LET pop(t) == Cardinality({i \in 0..(size - 1) : state.types[i] = t})
  IN [popEmpty |-> pop(0), popFire |-> pop(1), popWater |-> pop(2),
      popGrass |-> pop(3), births |-> births, deaths |-> deaths]

\* variant: the tick writes into the arrays it reads, cell after cell
RECURSIVE InPlace(_, _, _, _, _)
InPlace(state, config, nb, tick, idx) ==
  IF idx >= config.width * config.height THEN state
  ELSE LET cell == nextCell(state, config, nb, tick, idx)
       IN InPlace([types |-> [state.types EXCEPT ![idx] = cell.type],
                   energy10 |-> [state.energy10 EXCEPT ![idx] = cell.energy10],
                   age |-> [state.age EXCEPT ![idx] = cell.age]],
                  config, nb, tick, idx + 1)

stepState_InPlace(current, config, nb, tick) ==
  LET size == config.width * config.height
      state == InPlace(current, config, nb, tick, 0)
  IN [state |-> state, metrics |-> computeMetrics(state, size, 0, 0),
      digest |-> digestStateHex(state, size)]

stepState(current, config, nb, tick) ==
  LET size == config.width * config.height
      cells == [idx \in 0..(size - 1) |-> nextCell(current, config, nb, tick, idx)]
      state == [types |-> [idx \in 0..(size - 1) |-> cells[idx].type],
                energy10 |-> [idx \in 0..(size - 1) |-> cells[idx].energy10],
                age |-> [idx \in 0..(size - 1) |-> cells[idx].age]]
      births == Cardinality({idx \in 0..(size - 1) : cells[idx].born})
      deaths == Cardinality({idx \in 0..(size - 1) : cells[idx].died})
  IN [state |-> state, metrics |-> computeMetrics(state, size, births, deaths),
      digest |-> digestStateHex(state, size)]

\* ---- engine: sim.ts, the initial states ------------------------------------------
Cells(config) == 0..(config.width * config.height - 1)

\* the three arrays of an initial state whose alive cells are those of types
stateOf(types, config) ==
  [types |-> types,
   energy10 |-> [idx \in Cells(config) |->
                   IF types[idx] # 0 THEN config.constants.startEnergy10 % U16 ELSE 0],
   age |-> [idx \in Cells(config) |-> 0]]

centerWithJitter(seed, size, base10k, jitter, streamA, streamB) ==
  LET base == ((size - 1) * base10k) \div 10000
  IN IF jitter <= 0 THEN base
     ELSE clampInt(base + hashU24Mod(seed, streamA, streamB, size, jitter * 2 + 1) - jitter,
                   0, size - 1)

createTriadCenters(width, height, seed) ==
  LET jitterX == Max(1, (width * 6) \div 100)
      jitterY == Max(1, (height * 6) \div 100)
  IN <<[type |-> 1, x |-> centerWithJitter(seed, width, 2200, jitterX, 101, 211),
        y |-> centerWithJitter(seed, height, 2400, jitterY, 103, 223)],
       [type |-> 2, x |-> centerWithJitter(seed, width, 7800, jitterX, 107, 227),
        y |-> centerWithJitter(seed, height, 2400, jitterY, 109, 229)],
       [type |-> 3, x |-> centerWithJitter(seed, width, 5000, jitterX, 113, 233),
        y |-> centerWithJitter(seed, height, 7600, jitterY, 127, 239)]>>

\* candidates.sort by score = d2 * 1024 + tie (tie < 1024, the sort is stable):
\* the candidates ordered by squared distance d2 to the centre, then by tie,
\* then by index; the first `need` empty ones are taken, here one distance
\* r at a time.  i is the centre's position (1..3), acc the cells taken.
RECURSIVE takeCandidates(_, _, _, _, _, _, _)
takeCandidates(types, config, center, i, r, need, acc) ==
  IF need <= 0 \/ r > config.width * config.width + config.height * config.height
  THEN acc
  ELSE LET k == CHOOSE j \in 0..(config.width + config.height) :
                  j * j >= r /\ (j = 0 \/ (j - 1) * (j - 1) < r)
           shell == {y * config.width + x :
                       <<x, y>> \in {p \in (Max(0, center.x - k)..Min(config.width - 1, center.x + k))
                                            \X (Max(0, center.y - k)..Min(config.height - 1, center.y + k)) :
                                      /\ (p[1] - center.x) * (p[1] - center.x)
                                           + (p[2] - center.y) * (p[2] - center.y) = r
                                      /\ types[p[2] * config.width + p[1]] = 0}}
           tie(idx) == hashU24Mod(config.seed, idx, i, 977, 1024)
           before(a, b) == tie(a) < tie(b) \/ (tie(a) = tie(b) /\ a < b)
       IN IF Cardinality(shell) <= need
          THEN takeCandidates(types, config, center, i, r + 1,
                              need - Cardinality(shell), acc \cup shell)
          ELSE acc \cup {c \in shell :
                           Cardinality({o \in shell : before(o, c)}) < need}

\* variant: the whole target goes to the first centre
targetOf_FirstTakesAll(targetAlive, i) == IF i = 1 THEN targetAlive ELSE 0

\* the share of centre i (1..3) in targetAlive cells
targetOf(targetAlive, i) ==
  (targetAlive \div 3) + (IF i <= targetAlive % 3 THEN 1 ELSE 0)

createTriadInitialState(config) ==
  LET size == config.width * config.height
      empty == [idx \in Cells(config) |-> 0]
      targetAlive == clampInt((config.initialAliveRatio * size) \div 10000, 0, size)
      targets == [i \in 1..3 |-> targetOf(targetAlive, i)]
      centers == createTriadCenters(config.width, config.height, config.seed)
      place(types, i) ==
        IF targets[i] <= 0 THEN types
        ELSE LET taken == takeCandidates(types, config, centers[i], i, 0, targets[i], {})
             IN [idx \in Cells(config) |->
                   IF idx \in taken THEN centers[i].type ELSE types[idx]]
  IN IF config.initialAliveRatio = NaN
     \* targetAlive is NaN: no limit compares, the first centre takes every cell
     THEN stateOf([idx \in Cells(config) |-> centers[1].type], config)
     ELSE IF targetAlive = 0 THEN stateOf(empty, config)
     ELSE stateOf(place(place(place(empty, 1), 2), 3), config)

NoCenter == [x |-> -1, y |-> -1, type |-> 0]

\* a centre at (x, y) neither overlaps a placed block nor is closer than
\* minDistance to its centre (Math.hypot(dx, dy) < minDistance)
centerFits(centers, x, y, minDistance) ==
  \A j \in 1..Len(centers) :
    LET dx == centers[j].x - x
        dy == centers[j].y - y
    IN /\ ~(dx \in -2..2 /\ dy \in -2..2)
       /\ ~(dx * dx + dy * dy < minDistance * minDistance)

\* variant: centres drawn over the whole side, border included
hashedCenter_NoMargin(config, type, stream, salt, side) ==
  hashU24Mod(config.seed, type, stream, salt, side)

\* minCenter + hashU24Mod(seed, type, stream, salt, range): a centre
\* coordinate in 1..side-2
hashedCenter(config, type, stream, salt, side) ==
  1 + hashU24Mod(config.seed, type, stream, salt, side - 2)

\* the first of the 512 hashed attempts for block i (0-based) that fits
tryAttempts(config, type, i, centers, minDistance) ==
  LET stream(attempt) == i * 1009 + attempt + 1
      centerX(attempt) == hashedCenter(config, type, stream(attempt), 947, config.width)
      centerY(attempt) == hashedCenter(config, type, stream(attempt), 953, config.height)
      fits(attempt) ==
        centerFits(centers, centerX(attempt), centerY(attempt), minDistance)
  IN IF \A attempt \in 0..511 : ~fits(attempt) THEN NoCenter
     ELSE LET first == CHOOSE attempt \in 0..511 :
                         fits(attempt) /\ \A b \in 0..(attempt - 1) : ~fits(b)
          IN [x |-> centerX(first), y |-> centerY(first), type |-> type]

\* the scan over all centres that follows 512 failed attempts: the first
\* offset from start on that fits
scanCenters(config, type, start, centers, minDistance) ==
  LET rangeX == config.width - 2
      area == rangeX * (config.height - 2)
      x(offset) == 1 + (((start + offset) % area) % rangeX)
      y(offset) == 1 + (((start + offset) % area) \div rangeX)
      fits(offset) == centerFits(centers, x(offset), y(offset), minDistance)
  IN IF \A offset \in 0..(area - 1) : ~fits(offset) THEN NoCenter
     ELSE LET first == CHOOSE offset \in 0..(area - 1) :
                         fits(offset) /\ \A b \in 0..(offset - 1) : ~fits(b)
          IN [x |-> x(first), y |-> y(first), type |-> type]

\* the centres of the blocks i.. (0-based) for one separation; <<>> on failure
RECURSIVE placeCenters(_, _, _, _, _)
placeCenters(config, rotated, i, centers, minDistance) ==
  IF i >= 3 THEN centers
  ELSE LET type == rotated[i + 1]
           area == (config.width - 2) * (config.height - 2)
           hashed == tryAttempts(config, type, i, centers, minDistance)
           found == IF hashed # NoCenter THEN hashed
                    ELSE scanCenters(config, type,
                                     hashU24Mod(config.seed, type, i + 1, 971, area),
                                     centers, minDistance)
       IN IF found = NoCenter THEN <<>>
          ELSE placeCenters(config, rotated, i + 1, Append(centers, found), minDistance)

\* the first separation of the candidates from position j on that places all
\* three blocks; <<>> when none does
RECURSIVE placeBlocks(_, _, _, _)
placeBlocks(config, rotated, candidates, j) ==
  IF j > Len(candidates) THEN <<>>
  ELSE LET centers == placeCenters(config, rotated, 0, <<>>, candidates[j])
       IN IF centers # <<>> THEN centers
          ELSE placeBlocks(config, rotated, candidates, j + 1)

\* the tiny-grid fallback for one type: the first empty cell from start on
fallbackCell(types, size, start) ==
  LET free(offset) == types[(start + offset) % size] = 0
  IN IF \A offset \in 0..(size - 1) : ~free(offset) THEN -1
     ELSE (start + CHOOSE offset \in 0..(size - 1) :
                     free(offset) /\ \A b \in 0..(offset - 1) : ~free(b)) % size

\* the three types in the seed's rotation of the cycle
rotatedTypes(config) ==
  [i \in 1..3 |->
     <<1, 2, 3>>[((hashChoice(config.seed, config.width, config.height, 911, 3)
                     + i - 1) % 3) + 1]]

\* the separations tried in turn, duplicates removed
separationCandidates(config) ==
  LET desiredMinDistance == Max(6, Min(config.width, config.height) \div 4)
      listed == <<desiredMinDistance, (desiredMinDistance * 3) \div 4,
                  desiredMinDistance \div 2, 3, 0>>
  IN SelectSeq([j \in 1..5 |-> IF \E h \in 1..(j - 1) : listed[h] = listed[j]
                               THEN -1 ELSE listed[j]],
               LAMBDA v : v >= 0)

\* paintBlock of every centre (blocks do not overlap, cells off the grid are
\* skipped)
paintBlocks(config, centers) ==
  [idx \in Cells(config) |->
     LET x == idx % config.width
         y == idx \div config.width
         hit == {j \in 1..Len(centers) :
                   (x - centers[j].x) \in -1..1 /\ (y - centers[j].y) \in -1..1}
     IN IF hit = {} THEN 0
        ELSE centers[CHOOSE j \in hit : \A h \in hit : j <= h].type]

\* variant: no fallback
fillType_Never(config, types, type) == types

\* the tiny-grid fallback: a type that has no cell gets one
fillType(config, types, type) ==
  IF \E idx \in Cells(config) : types[idx] = type THEN types
  ELSE LET size == config.width * config.height
           idx == fallbackCell(types, size,
                               hashU24Mod(config.seed, type, size, 977, size))
       IN IF idx < 0 THEN types ELSE [types EXCEPT ![idx] = type]

\* the one member of a one-member set
The(S) == CHOOSE member \in S : TRUE

createSingleBlockInitialState(config) ==
  The({The({stateOf(filled, config) :
              filled \in {fillType(config, two, rotated[3]) :
                two \in {fillType(config, one, rotated[2]) :
                  one \in {fillType(config, painted, rotated[1]) :
                    painted \in {paintBlocks(config, centers) :
                      centers \in {IF config.width >= 3 /\ config.height >= 3
                                   THEN placeBlocks(config, rotated, candidates, 1)
                                   ELSE <<>>}}}}}}) :
         rotated \in {rotatedTypes(config)},
         candidates \in {separationCandidates(config)}})

createInitialState(config) ==
  IF config.initMode = "single-block" THEN createSingleBlockInitialState(config)
  ELSE IF config.initMode = "triad" THEN createTriadInitialState(config)
  ELSE LET \* a NaN ratio stays NaN, and no roll is below it
           aliveRatio10k == IF config.initialAliveRatio = NaN THEN 0
                            ELSE clampInt(config.initialAliveRatio, 0, 10000)
           cell(idx) ==
             LET clusterX == (idx % config.width) \div 8
                 clusterY == (idx \div config.width) \div 8
                 clusterBias10k ==
                   6000 + hashU24Mod(config.seed, clusterX, clusterY, 91, 8001)
                 aliveChance10k ==
                   IF config.initMode = "clustered"
                   THEN clampInt((aliveRatio10k * clusterBias10k) \div 10000, 0, 10000)
                   ELSE aliveRatio10k
                 cellType ==
                   IF config.initMode = "clustered"
                   THEN hashChoice(config.seed, clusterX, clusterY, 31337, 3) + 1
                   ELSE hashChoice(config.seed, idx, 73, 11, 3) + 1
             IN IF hashU24Mod(config.seed, idx, 19, 7, 10000) < aliveChance10k
                THEN cellType ELSE 0
       IN stateOf([idx \in Cells(config) |-> cell(idx)], config)

\* ---- engine: ReferenceSimulator ------------------------------------------------
\* eng holds one simulator: its config, state and tick, with the states it went
\* through since construction (trace) and the result of its last step
EngConstants ==
  {[EmptyPartial.constants EXCEPT
      !.maxEnergy10 = 3, !.startEnergy10 = 2, !.spawnEnergy10 = 1,
      !.threatPenalty10 = b[1], !.allyBonus10 = b[2], !.preyBonus10 = b[3]] :
     b \in {<<0, 0, 0>>, <<1, 0, 0>>, <<0, 1, 1>>}}
  \cup {EmptyPartial.constants}

EngWorlds ==
  {[EmptyPartial EXCEPT !.width = d[1], !.height = d[2], !.wrapWorld = w,
                        !.seed = seed] :
     d \in {<<2, 2>>, <<3, 3>>, <<4, 3>>}, w \in {"true", "false"},
     seed \in 1..MaxEngSeed}

\* small worlds, given to normalizeSimConfig as a viewer would; the
\* single-block layout does not read the ratio; and 2x2 worlds whose cells
\* start or are born with no energy
EngInputs ==
  {[p EXCEPT !.initMode = mode, !.initialAliveRatio = ratio,
             !.reproThreshold = r, !.constants = k] :
     p \in EngWorlds, mode \in {"random", "clustered", "triad"},
     ratio \in {2000, 5000, NaN}, r \in 1..3, k \in EngConstants}
  \cup {[p EXCEPT !.initMode = "single-block", !.reproThreshold = r,
                  !.constants = k] :
          p \in EngWorlds, r \in {1, 3},
          k \in {c \in EngConstants : c.threatPenalty10 \in {1, Absent}}}
  \cup {[p EXCEPT !.initMode = "random", !.initialAliveRatio = 5000,
                  !.reproThreshold = 1,
                  !.constants = [EmptyPartial.constants EXCEPT
                                   !.maxEnergy10 = 3, !.startEnergy10 = e[1],
                                   !.spawnEnergy10 = e[2], !.threatPenalty10 = 0,
                                   !.allyBonus10 = 1, !.preyBonus10 = 1]] :
          p \in {w \in EngWorlds : w.width = 2}, e \in {<<0, 1>>, <<2, 0>>}}

\* the worlds of the layout tests: 11x11 single-block and 128x128 triad at
\* ratio 0.02, default constants; and single-block on grids of three cells
\* and more that have no room for three blocks
LayoutInputs ==
  {[EmptyPartial EXCEPT !.width = 11, !.height = 11, !.initMode = "single-block",
                        !.seed = seed] : seed \in 1..MaxBlockSeed}
  \cup {[EmptyPartial EXCEPT !.width = d[1], !.height = d[2],
                             !.initMode = "single-block", !.seed = seed,
                             !.constants = [EmptyPartial.constants EXCEPT
                                              !.startEnergy10 = e]] :
          d \in {<<1, 3>>, <<3, 1>>, <<2, 2>>, <<1, 4>>, <<2, 3>>, <<5, 2>>, <<3, 3>>},
          seed \in 1..MaxEngSeed, e \in {Absent, 7}}
  \cup {[EmptyPartial EXCEPT !.width = 128, !.height = 128, !.initMode = "triad",
                             !.initialAliveRatio = 200, !.seed = seed] :
          seed \in 1..MaxTriadSeed}

EngineInit ==
  /\ BridgeInit
  /\ probe = Idle
  /\ obj = Idle
  /\ eng \in {[phase |-> "input", input |-> p] : p \in EngInputs}

LayoutInit ==
  /\ BridgeInit
  /\ probe = Idle
  /\ obj = Idle
  /\ eng \in {[phase |-> "input", input |-> p] : p \in LayoutInputs}

\* new ReferenceSimulator(normalizeSimConfig(input))
Construct ==
  /\ eng.phase = "input"
  /\ \E config \in {normalizeSimConfig(eng.input)} :
       \E state \in {createInitialState(config)} :
         eng' = [phase |-> "run", input |-> eng.input, config |-> config,
                 state |-> state, tick |-> 0, trace |-> <<state>>,
                 result |-> [metrics |-> computeMetrics(state, config.width * config.height,
                                                        0, 0),
                             digest |-> 0]]
  /\ UNCHANGED <<bridgeVars, probe, obj>>

\* ReferenceSimulator.step
Step ==
  /\ eng.phase = "run"
  /\ eng.tick < MaxEngTick
  /\ \E result \in {stepState(eng.state, eng.config, precomputeNeighbors(eng.config),
                              eng.tick + 1)} :
       eng' = [eng EXCEPT !.state = result.state, !.tick = eng.tick + 1,
                          !.trace = Append(eng.trace, result.state),
                          !.result = [metrics |-> result.metrics,
                                      digest |-> result.digest]]
  /\ UNCHANGED <<bridgeVars, probe, obj>>

EngineNext == Construct \/ Step

SpecEngine == EngineInit /\ [][EngineNext]_vars

LayoutNext == Construct

SpecLayout == LayoutInit /\ [][LayoutNext]_vars


\* ---- engine: the ReferenceSimulator object and its caller -----------------------
\* typed arrays are objects: heap maps a reference to the three arrays stored
\* there, the simulator's field state is a reference, and so is every state a
\* call hands out. The caller keeps the value of its last call (ret) and may
\* write into the arrays it holds.
MaxObjTick == 3     \* steps taken by one simulator object
MaxCount == 3       \* largest count given to stepMany

Refs == 1..(MaxObjTick + 2)
Free == <<>>

\* new Uint8Array(..) / new Uint16Array(..): storage no live object uses
alloc(heap) ==
  CHOOSE r \in Refs : heap[r] = Free /\ \A q \in Refs : q < r => heap[q] # Free

\* the arrays nobody can reach any more are collected: the caller has dropped
\* the value of its previous call
release(o) ==
  [o EXCEPT !.heap = [r \in Refs |-> IF r = o.state THEN o.heap[r] ELSE Free],
            !.ret = <<>>]

\* cloneState: three new arrays with the elements of the given ones
cloneState(o, ref) ==
  [heap |-> [o.heap EXCEPT ![alloc(o.heap)] = o.heap[ref]], ref |-> alloc(o.heap)]

\* ReferenceSimulator.step: the result's state object becomes this.state
\* (steps counts the executions of step since construction)
step(o) ==
  The({[o EXCEPT !.heap = [@ EXCEPT ![ref] = result.state],
                 !.state = ref,
                 !.tick = nextTick,
                 !.steps = @ + 1,
                 !.ret = Append(@, [state |-> ref, metrics |-> result.metrics,
                                    digest |-> result.digest])] :
         nextTick \in {o.tick + 1},
         ref \in {alloc(o.heap)},
         result \in {stepState(o.heap[o.state], o.config,
                               precomputeNeighbors(o.config), o.tick + 1)}})

\* variant: a count below 1 is taken as it is
safeCount_NoLowerBound(count) == Min(1000000, count)

\* stepMany: const safeCount = clampInt(count, 1, 1_000_000)
safeCount(count) == clampInt(count, 1, 1000000)

\* the for loop of stepMany from iteration i on
RECURSIVE stepManyLoop(_, _, _)
stepManyLoop(o, i, count) ==
  IF i < count THEN stepManyLoop(step(o), i + 1, count) ELSE o

stepMany(o, count) == stepManyLoop(o, 0, safeCount(count))

ObjInputs ==
  {[p EXCEPT !.initMode = "random", !.initialAliveRatio = 5000,
             !.reproThreshold = r, !.constants = k] :
     p \in {w \in EngWorlds : w.width = 2}, r \in 1..2,
     k \in {c \in EngConstants : c.threatPenalty10 = 0}}

ObjInit ==
  /\ BridgeInit
  /\ eng = Idle
  /\ probe = Idle
  /\ obj \in {[phase |-> "input", input |-> p] : p \in ObjInputs}

\* new ReferenceSimulator(normalizeSimConfig(input)); pure is the state of a
\* simulator built from the same config and stepped as often, call is the
\* caller's last call with the state and step count it started from
New ==
  /\ obj.phase = "input"
  /\ \E config \in {normalizeSimConfig(obj.input)} :
       \E state \in {createInitialState(config)} :
         obj' = [phase |-> "live", config |-> config,
                 heap |-> [r \in Refs |-> IF r = 1 THEN state ELSE Free],
                 state |-> 1, tick |-> 0, ret |-> <<>>,
                 call |-> [op |-> "new"], pure |-> state, steps |-> 0]
  /\ UNCHANGED <<bridgeVars, eng, probe>>

\* the caller calls getState()
GetState ==
  /\ obj.phase = "live"
  /\ \E o \in {release(obj)} :
       \E copy \in {cloneState(o, o.state)} :
         obj' = [o EXCEPT !.heap = copy.heap, !.ret = <<[state |-> copy.ref]>>,
                          !.call = [op |-> "getState"]]
  /\ UNCHANGED <<bridgeVars, eng, probe>>

\* the state pure after count more steps
RECURSIVE Stepped(_, _, _, _)
Stepped(state, config, tick, count) ==
  IF count = 0 THEN state
  ELSE Stepped(stepState(state, config, precomputeNeighbors(config), tick + 1).state,
               config, tick + 1, count - 1)

\* the caller calls step()
CallStep ==
  /\ obj.phase = "live"
  /\ obj.steps < MaxObjTick
  /\ \E o \in {step(release(obj))} :
       obj' = [o EXCEPT !.call = [op |-> "step"],
                        !.pure = Stepped(obj.pure, obj.config, obj.steps, 1)]
  /\ UNCHANGED <<bridgeVars, eng, probe>>

\* the caller calls stepMany(count)
CallStepMany ==
  /\ obj.phase = "live"
  /\ \E count \in (-1)..MaxCount :
       /\ obj.steps + safeCount(count) <= MaxObjTick
       /\ \E o \in {stepMany(release(obj), count)} :
            obj' = [o EXCEPT !.call = [op |-> "stepMany", count |-> count,
                                       before |-> obj.heap[obj.state],
                                       steps |-> obj.steps],
                             !.pure = Stepped(obj.pure, obj.config, obj.steps,
                                              o.steps - obj.steps)]
  /\ UNCHANGED <<bridgeVars, eng, probe>>

\* the caller empties the first cell of an array it was handed, or sets it on fire
CallerWrite ==
  /\ obj.phase = "live"
  /\ \E i \in 1..Len(obj.ret) : \E type \in 0..1 :
       /\ obj.heap[obj.ret[i].state].types[0] # type
       /\ obj' = [obj EXCEPT !.heap[obj.ret[i].state].types[0] = type,
                             !.call = [op |-> "write"]]
  /\ UNCHANGED <<bridgeVars, eng, probe>>

ObjNext == New \/ GetState \/ CallStep \/ CallStepMany \/ CallerWrite

SpecObject == ObjInit /\ [][ObjNext]_vars


\* ---- the pure functions of the engine under test -----------------------------------
\* full 2x2 worlds that differ in the seed and the start energy
DigestWorlds ==
  {[EmptyPartial EXCEPT !.width = 2, !.height = 2, !.seed = seed,
                        !.initMode = "random", !.initialAliveRatio = 10000,
                        !.constants = [EmptyPartial.constants EXCEPT
                                         !.maxEnergy10 = 10000,
                                         !.startEnergy10 = e]] :
     seed \in 1..MaxEngSeed, e \in {50, 679, 1511, 1536, 2063}}

DigestInputs ==
  {[phase |-> "input", fn |-> "digestState", a |-> a, b |-> b] :
     a \in DigestWorlds, b \in DigestWorlds}

\* apps/bridge loop.ts: Math.round of a positive quotient n / d
round(n, d) == (2 * n + d) \div (2 * d)

\* tickIntervalMs, the rate in tenths as in the config; Math.max(1, NaN) is
\* NaN, and so are the quotient, Math.round of it and Math.max(16, NaN)
tickIntervalMs(tickRateUi) ==
  IF tickRateUi = NaN THEN NaN
  ELSE Max(16, round(10000, Max(10, tickRateUi)))

\* rates 0.5 .. 1000 and some that are no rate of a normalized config
IntervalInputs ==
  {[phase |-> "input", fn |-> "tickIntervalMs", tickRateUi |-> r] :
     r \in {NaN, -50, 0, 5, 7, 10, 15, 20, 30, 35, 50, 70, 600, 606, 607, 620, 10000}}

\* states given to stepState directly, as the engine tests do: a 3x3 world
\* whose centre cell is surrounded by eight cells of one type (or by none),
\* and the full 2x2 world without wrap, where no cell ever dies when allies
\* pay for the drain, as it is after 0, 1, 65534 and 65535 ticks
StepInputs ==
  {[phase |-> "input", fn |-> "stepState", tick |-> age + 1,
    config |-> [EmptyPartial EXCEPT
                  !.width = 3, !.height = 3, !.wrapWorld = w, !.reproThreshold = 8,
                  !.constants = [EmptyPartial.constants EXCEPT
                                   !.threatPenalty10 = k[1], !.allyBonus10 = k[2],
                                   !.preyBonus10 = k[3]]],
    state |-> [types |-> [idx \in 0..8 |-> IF idx = 4 THEN centre ELSE ring],
               energy10 |-> [idx \in 0..8 |-> IF idx = 4 THEN energy
                                              ELSE IF ring = 0 THEN 0 ELSE 50],
               age |-> [idx \in 0..8 |-> IF idx # 4 /\ ring = 0 THEN 0 ELSE age]]] :
     w \in {"true", "false"}, centre \in 1..3, ring \in 0..3, energy \in {1, 11, 50},
     age \in {0, 7}, k \in {<<10, 0, 0>>, <<1, 2, 3>>}}
  \cup
  {[phase |-> "input", fn |-> "stepState", tick |-> age + 1,
    config |-> [EmptyPartial EXCEPT
                  !.width = 2, !.height = 2, !.wrapWorld = "false", !.seed = seed,
                  !.initMode = "random", !.initialAliveRatio = 10000,
                  !.constants = [EmptyPartial.constants EXCEPT
                                   !.threatPenalty10 = 0, !.allyBonus10 = 1]],
    state |-> [types |-> [idx \in 0..3 |-> hashChoice(seed, idx, 73, 11, 3) + 1],
               energy10 |-> [idx \in 0..3 |-> 50],
               age |-> [idx \in 0..3 |-> age]]] :
     seed \in 1..MaxEngSeed, age \in {0, 1, 65534, 65535}}

\* grids from a single cell up, with and without wrap
TopologyInputs ==
  {[phase |-> "input", fn |-> "precomputeNeighbors",
    config |-> [EmptyPartial EXCEPT !.width = w, !.height = h, !.wrapWorld = t]] :
     w \in 1..MaxGrid, h \in 1..MaxGrid, t \in {"true", "false"}}

ProbeInit ==
  /\ BridgeInit
  /\ eng = Idle
  /\ obj = Idle
  /\ probe \in DecideInputs \cup NormalizeInputs \cup DigestInputs \cup IntervalInputs
                \cup StepInputs \cup TopologyInputs

\* stepState(state, config, createRuntimeContext(config), tick)
StepState ==
  /\ probe.phase = "input" /\ probe.fn = "stepState"
  /\ \E config \in {normalizeSimConfig(probe.config)} :
       \E context \in {precomputeNeighbors(config)} :
         \E result \in {stepState(probe.state, config, context, probe.tick)} :
           probe' = [phase |-> "done", fn |-> probe.fn, tick |-> probe.tick,
                     config |-> config, state |-> probe.state, result |-> result]
  /\ UNCHANGED <<bridgeVars, eng, obj>>

\* createRuntimeContext(config).neighbors
Neighbors ==
  /\ probe.phase = "input" /\ probe.fn = "precomputeNeighbors"
  /\ \E config \in {normalizeSimConfig(probe.config)} :
       probe' = [phase |-> "done", fn |-> probe.fn, config |-> config,
                 result |-> precomputeNeighbors(config)]
  /\ UNCHANGED <<bridgeVars, eng, obj>>

\* startAutoplayLoop computes the delay it gives setInterval
Interval ==
  /\ probe.phase = "input" /\ probe.fn = "tickIntervalMs"
  /\ probe' = [phase |-> "done", fn |-> probe.fn, tickRateUi |-> probe.tickRateUi,
               result |-> tickIntervalMs(probe.tickRateUi)]
  /\ UNCHANGED <<bridgeVars, eng, obj>>

\* getDigest() of two new simulators
Digest ==
  /\ probe.phase = "input" /\ probe.fn = "digestState"
  /\ \E a \in {createInitialState(normalizeSimConfig(probe.a))},
        b \in {createInitialState(normalizeSimConfig(probe.b))} :
       probe' = [phase |-> "done", fn |-> probe.fn, a |-> a, b |-> b,
                 result |-> <<digestStateHex(a, 4), digestStateHex(b, 4)>>]
  /\ UNCHANGED <<bridgeVars, eng, obj>>

ProbeNext == Decide \/ Normalize \/ Digest \/ Interval \/ StepState \/ Neighbors

SpecProbe == ProbeInit /\ [][ProbeNext]_vars

TypeOK ==
  /\ \A s \in SessIds : live[s] \in 0..1
  /\ \A s \in SessIds : sess[s].simulator.tick \in -1..MaxTick

\* ---- vocabulary of the properties -------------------------------------------
Idx(out, ws, type) == {i \in 1..Len(out) : out[i].to = ws /\ out[i].m.type = type}
FirstOf(out, ws, type) ==
  out[CHOOSE i \in Idx(out, ws, type) : \A j \in Idx(out, ws, type) : i <= j].m
SessionOf(ws) == conns[ws].sid
HandledMessage == ev.kind = "message"
\* the session a client identity would reattach to: registered and detached
Detached(c) == sessions[c] # 0 /\ sess[sessions[c]].socket = 0
CanConnect(c) == nextConn <= MaxConns /\ ensureSession(c) <= MaxSessions

\* C1 (as claimed): when a session that had an active run at the moment its
\* transport was detached is reattached by a connection with the same client
\* identity before its drop deadline fires, the first state message sent on
\* the new transport carries the runId and the tick the session had at detach,
\* and the first frame sent is the cached last frame, whose tick is that tick.
C1_ReconnectReplay ==
  \A c \in ClientIds :
    (CanConnect(c) /\ Detached(c) /\ atDetach[sessions[c]].runId > 0) =>
      LET sid == sessions[c]
          ws == nextConn
          out == onConnection(c, ws).out
      IN /\ Idx(out, ws, "state") # {}
         /\ FirstOf(out, ws, "state").runId = atDetach[sid].runId
         /\ FirstOf(out, ws, "state").tick = atDetach[sid].tick
         /\ Idx(out, ws, "frame") # {}
         /\ FirstOf(out, ws, "frame").frame = sess[sid].lastFrame
         /\ FirstOf(out, ws, "frame").frame.tick = atDetach[sid].tick

\* C2 (as claimed): while a session has no transport attached, its simulator's
\* tick is the tick it had when the transport was detached.
C2_NoHiddenTickDrift ==
  \A s \in SessIds :
    (sess[s].socket = 0 /\ atDetach[s] # NoDetach) =>
      asStateMessage(sess[s]).tick = atDetach[s].tick

\* ---- C3: the decision table -------------------------------------------------
\* the table of the claim, written out: rows by message type, columns by
\* snapshot (no run / running / paused); ticks in halves as in the payload
ExpectedTicks(ticks2) ==
  IF ticks2 = NoTicks THEN 1
  ELSE IF ticks2 < 4 THEN 1        \* below 2.0: floor is at most 1, max gives 1
  ELSE IF ticks2 < 6 THEN 2
  ELSE 3

ExpectedKind(type, col) ==
  CASE type = "start" -> <<"start_new", "noop", "resume">>[col]
    [] type = "pause" -> <<"noop", "pause", "noop">>[col]
    [] type = "resume" -> <<"noop", "noop", "resume">>[col]
    [] type = "reset" -> <<"error", "reset", "reset">>[col]
    [] type = "step" -> <<"error", "step", "step">>[col]
    [] type = "stop" -> <<"noop", "stop", "stop">>[col]

Column(snapshot) ==
  IF ~snapshot.hasRun THEN 1 ELSE IF snapshot.phase = "running" THEN 2 ELSE 3

ReachableSnapshots ==
  {[hasRun |-> FALSE, phase |-> "idle"], [hasRun |-> TRUE, phase |-> "running"],
   [hasRun |-> TRUE, phase |-> "paused"]}

\* C3: for every message that can be handled in a reachable state, the
\* session's snapshot is one of no run / running / paused and decideControl
\* returns the kind the table gives for it; a step decision carries
\* max(1, floor(ticks ?? 1)) ticks.
C3_DecisionTable ==
  \A ws \in ConnIds, raw \in RawPayloads :
    (CanReceive(ws) /\ parseControlMessage(raw) # NullMsg) =>
      LET snapshot == Snapshot(sess[SessionOf(ws)])
          decision == decideControl(snapshot, parseControlMessage(raw))
      IN /\ snapshot \in ReachableSnapshots
         /\ decision.kind = ExpectedKind(raw.type, Column(snapshot))
         /\ decision.kind = "step" => decision.ticks = ExpectedTicks(raw.ticks2)

\* a step of 1.5 ticks was handled on a paused run and advanced it by one tick
C3_Witness ==
  /\ HandledMessage /\ ev.raw.type = "step" /\ ev.raw.ticks2 = 3
  /\ sess[SessionOf(ev.conn)].phase = "paused"
  /\ sess[SessionOf(ev.conn)].simulator.tick = 1

\* ---- C4: start on a session that has a run -----------------------------------
FramesIn(out) == {i \in 1..Len(out) : out[i].m.type = "frame"}

\* C4: handling a start message on a session that already has a run leaves
\* runId, config (seed included), simulator and tick and the cached frame as
\* they were, whatever config the message carries; the phase afterwards is
\* running; no frame is emitted.
C4_StartKeepsRun ==
  \A ws \in ConnIds, raw \in RawPayloads :
    (CanReceive(ws) /\ raw.type = "start" /\ raw.hasConfig
       /\ hasRun(sess[SessionOf(ws)])) =>
      LET pre == sess[SessionOf(ws)]
          x == onMessage(CtxOf(SessionOf(ws)), raw)
      IN /\ x.S.runId = pre.runId
         /\ x.run = nextRun
         /\ x.S.config = pre.config
         /\ x.S.simulator = pre.simulator
         /\ x.S.lastFrame = pre.lastFrame
         /\ x.S.phase = "running"
         /\ FramesIn(x.out) = {}

\* a start carrying seed 7 was handled by a session whose run keeps seed 42
C4_Witness ==
  /\ HandledMessage /\ ev.raw.type = "start" /\ ev.raw.hasConfig /\ ev.raw.seed = 7
  /\ hasRun(sess[SessionOf(ev.conn)])
  /\ sess[SessionOf(ev.conn)].config.seed = DEFAULT_SEED
  /\ sess[SessionOf(ev.conn)].simulator.tick > 0

\* ---- C5: reset ----------------------------------------------------------------
\* C5: handling a reset on a session with a run leaves runId, phase and the
\* config seed as they were, whatever seed or config the message carries; the
\* simulator is back at tick 0, the cached frame is the initial frame of the
\* run, every state message sent reports tick 0, and an open attached
\* transport is sent that initial frame.
C5_ResetPreservesRun ==
  \A ws \in ConnIds, raw \in RawPayloads :
    (CanReceive(ws) /\ raw.type = "reset" /\ hasRun(sess[SessionOf(ws)])) =>
      LET pre == sess[SessionOf(ws)]
          x == onMessage(CtxOf(SessionOf(ws)), raw)
          initial == [runId |-> pre.runId, tick |-> 0, seed |-> pre.config.seed]
      IN /\ x.S.runId = pre.runId
         /\ x.S.phase = pre.phase
         /\ x.S.config.seed = pre.config.seed
         /\ x.S.simulator.tick = 0
         /\ x.S.simulator.seed = pre.config.seed
         /\ x.S.lastFrame = initial
         /\ \A i \in 1..Len(x.out) :
              /\ x.out[i].m.type = "state" => x.out[i].m.tick = 0
              /\ x.out[i].m.type = "frame" => x.out[i].m.frame = initial
         /\ SocketOpen(CtxOf(SessionOf(ws))) =>
              /\ FramesIn(x.out) # {}
              /\ x.out[Len(x.out)].m.type = "state"

\* a reset carrying seed 7 was handled by a paused run of seed 42
C5_Witness ==
  /\ HandledMessage /\ ev.raw.type = "reset" /\ ev.raw.seed = 7
  /\ hasRun(sess[SessionOf(ev.conn)])
  /\ sess[SessionOf(ev.conn)].config.seed = DEFAULT_SEED
  /\ sess[SessionOf(ev.conn)].phase = "paused"
  /\ sess[SessionOf(ev.conn)].socket = ev.conn

\* ---- C6: rejected messages ------------------------------------------------------
Rejected(raw, session) ==
  \/ parseControlMessage(raw) = NullMsg
  \/ raw.type \in {"reset", "step"} /\ ~hasRun(session)

\* C6 (as claimed): a rejected message (malformed, unrecognized, start without
\* config, reset or step without a run) leaves the session as it was and an
\* error message is sent to the connection it arrived on.
C6_RejectedUnchanged ==
  \A ws \in ConnIds, raw \in RawPayloads :
    (CanReceive(ws) /\ Rejected(raw, sess[SessionOf(ws)])) =>
      LET x == onMessage(CtxOf(SessionOf(ws)), raw)
      IN /\ x.S = sess[SessionOf(ws)]
         /\ x.L = live[SessionOf(ws)]
         /\ Idx(x.out, ws, "error") # {}

\* ---- C7: state re-broadcast -------------------------------------------------------
\* C7 (as claimed): the messages sent in response to a handled message end
\* with a state message that describes the session after handling, and it is
\* the only state message among them.
C7_StateRebroadcast ==
  \A ws \in ConnIds, raw \in RawPayloads :
    CanReceive(ws) =>
      LET x == onMessage(CtxOf(SessionOf(ws)), raw)
      IN InBounds(x) =>
           /\ x.out # <<>>
           /\ x.out[Len(x.out)].m = asStateMessage(x.S)
           /\ \A i \in 1..(Len(x.out) - 1) : x.out[i].m.type # "state"

\* ---- C9: routing and removal ------------------------------------------------------
Registered(s) == sess[s].clientId # 0 /\ sessions[sess[s].clientId] = s
DropPending(s) == sess[s].disconnectTimer = "pending"

\* C9 (as claimed): a session with an attached transport is in the registry,
\* and a drop timeout that fires removes no registry entry but that of its own
\* session, and that only while the session has no transport attached (so a
\* connection with the same identity reaches the session it reached before).
C9_RoutingAndRemoval ==
  /\ \A s \in SessIds : sess[s].socket # 0 => Registered(s)
  /\ \A s \in SessIds, c \in ClientIds :
       (DropPending(s) /\ sessions[c] # 0 /\ onDropTimeout(CtxOf(s)).R[c] = 0) =>
         (sessions[c] = s /\ sess[s].socket = 0)

\* ---- C10: TTL drop ------------------------------------------------------------------
\* C10: when the drop timeout of a registered session fires while no transport
\* is attached, the registry entry of its identity is removed and no autoplay
\* timer of the session stays live, whatever the phase; a connection for an
\* identity without registry entry gets a new session object in phase idle
\* without run, and is sent an info and a state message (idle, hasRun false,
\* tick 0, no runId) and no frame.
C10_TtlDrop ==
  /\ \A s \in SessIds :
       (DropPending(s) /\ Registered(s) /\ sess[s].socket = 0) =>
         LET x == onDropTimeout(CtxOf(s))
         IN /\ x.R[sess[s].clientId] = 0
            /\ ~x.S.timer
            /\ x.L = 0
            /\ x.S.disconnectTimer = "null"
  /\ \A c \in ClientIds :
       (sessions[c] = 0 /\ CanConnect(c)) =>
         LET ws == nextConn
             x == onConnection(c, ws)
         IN /\ \A s \in SessIds : Registered(s) => x.R[c] # s
            /\ \A w \in ConnIds : conns[w].readyState # "NONE" => conns[w].sid # x.R[c]
            /\ x.S.phase = "idle" /\ ~hasRun(x.S) /\ x.S.lastFrame = NoFrame
            /\ ~x.S.timer /\ x.S.socket = ws
            /\ Len(x.out) = 2
            /\ x.out[1] = [to |-> ws, m |-> InfoMsg("Connected as client.")]
            /\ x.out[2].to = ws
            /\ x.out[2].m.type = "state" /\ x.out[2].m.phase = "idle"
            /\ ~x.out[2].m.hasRun /\ x.out[2].m.tick = 0 /\ x.out[2].m.runId = 0

\* the identity whose running session was dropped has connected again and is
\* attached to a second, idle session object
C10_Witness ==
  /\ ev.kind = "connection"
  /\ sessions[1] = 2 /\ sess[2].socket = ev.conn /\ sess[2].phase = "idle"
  /\ hasRun(sess[1]) /\ sess[1].phase = "running" /\ sess[1].simulator.tick > 0
  /\ ~Registered(1) /\ live[1] = 0


\* ---- C11: resume after reconnect ------------------------------------------------
\* connection ws has just been attached to a session in phase running at tick t
AttachedRunning(ws, t) ==
  /\ ev.kind = "connection" /\ ev.conn = ws
  /\ conns[ws].readyState = "OPEN"
  /\ sess[SessionOf(ws)].socket = ws
  /\ sess[SessionOf(ws)].phase = "running"
  /\ sess[SessionOf(ws)].simulator.tick = t

TimerLive(ws) == sess[SessionOf(ws)].timer /\ live[SessionOf(ws)] > 0

\* a frame of a tick after t has been emitted while ws is attached and open
Advanced(ws, t) ==
  /\ conns[ws].readyState = "OPEN" /\ sess[SessionOf(ws)].socket = ws
  /\ sess[SessionOf(ws)].lastFrame.tick > t

\* the transport did not stay open, or a pause, stop or reset arrived
Interrupted(ws) ==
  \/ conns[ws].readyState # "OPEN"
  \/ sess[SessionOf(ws)].socket # ws
  \/ /\ ev.kind = "message" /\ ev.raw.type \in {"pause", "stop", "reset"}
     /\ SessionOf(ev.conn) = SessionOf(ws)

\* C11: whenever a transport has been attached to a session in phase running
\* (at a tick below the largest explored), the autoplay timer of the session
\* is live, and unless the transport stops being open or a pause, stop or
\* reset arrives, a frame with a tick greater than the tick at attach is
\* eventually emitted.
C11_ResumeAfterReconnect ==
  \A ws \in ConnIds, t \in 0..(MaxTick - 1) :
    [](AttachedRunning(ws, t) =>
         (TimerLive(ws) /\ <>(Advanced(ws, t) \/ Interrupted(ws))))

\* a second transport has been attached to a running session at tick 1
C11_Witness ==
  /\ AttachedRunning(2, 1)
  /\ hasRun(sess[SessionOf(2)]) /\ TimerLive(2)
  /\ conns[1].readyState = "CLOSED"

C16_NormalizedRanges ==
  (probe.phase = "done" /\ probe.fn = "normalizeSimConfig") =>
    LET c == probe.result
        k == probe.result.constants
    IN /\ c.width >= 1 /\ c.height >= 1 /\ c.seed >= 1
       /\ c.tickRateUi \in 10..50
       /\ c.chunkTicks \in 1..16
       /\ c.reproThreshold \in 1..8
       /\ c.initialAliveRatio \in 0..10000
       /\ c.initMode \in {"random", "clustered", "triad", "single-block"}
       /\ probe.input.initMode = "invalid-mode" => c.initMode = "single-block"
       /\ k.maxEnergy10 \in 1..10000
       /\ k.startEnergy10 \in 0..k.maxEnergy10
       /\ k.spawnEnergy10 \in 0..k.maxEnergy10
       /\ k.agingDrain10 = 1

Running == eng.phase = "run"
Size == eng.config.width * eng.config.height
Topology == precomputeNeighbors(eng.config)
\* the state the last step started from (tick >= 1)
Previous == eng.trace[eng.tick]
\* what the neighbours of idx add to its energy in one tick, drain aside
Gain(state, idx) ==
  LET type == state.types[idx]
      K == eng.config.constants
  IN CountSlots(Topology, idx, state.types, {type}) * K.allyBonus10
       + CountSlots(Topology, idx, state.types, {t \in 1..3 : beats(type, t)})
           * K.preyBonus10
       - CountSlots(Topology, idx, state.types, {t \in 1..3 : beats(t, type)})
           * K.threatPenalty10

\* C12: a step from the simulator's state under a config that differs only in
\* constants.agingDrain10 gives the same next state and the same digest as
\* the step under the simulator's own config, at every tick; and every alive
\* cell of the last step was charged a drain of exactly 1: its energy is its
\* old energy plus the gain from its neighbours minus 1, clamped to
\* [0, maxEnergy10], the cell being empty when that is 0.
C12_AgingDrainInsensitive ==
  Running =>
    /\ \A drain \in {0, 5} :
         LET other == [eng.config EXCEPT !.constants.agingDrain10 = drain]
             mine == stepState(eng.state, eng.config, Topology, eng.tick + 1)
             theirs == stepState(eng.state, other, precomputeNeighbors(other),
                                 eng.tick + 1)
         IN mine.state = theirs.state /\ mine.digest = theirs.digest
    /\ eng.tick >= 1 =>
         \A idx \in 0..(Size - 1) :
           Previous.types[idx] # 0 =>
             LET charged == clampInt(Previous.energy10[idx] + Gain(Previous, idx) - 1,
                                     0, eng.config.constants.maxEnergy10)
             IN /\ eng.state.energy10[idx] = charged
                /\ (eng.state.types[idx] = 0) = (charged = 0)

\* a simulator that has stepped, with a cell that paid the drain and lived
C12_Witness ==
  /\ Running /\ eng.tick = 2
  /\ \E idx \in 0..(Size - 1) :
       /\ Previous.types[idx] # 0 /\ eng.state.types[idx] # 0
       /\ eng.state.energy10[idx] = Previous.energy10[idx] - 1
  /\ \E idx \in 0..(Size - 1) : Previous.types[idx] # 0 /\ eng.state.types[idx] = 0

\* no neighbour slot of idx holds an alive cell other than idx itself
Isolated(state, idx) ==
  \A k \in 1..8 : Topology[idx][k] = idx \/ state.types[Topology[idx][k]] = 0

NoInteraction ==
  /\ eng.config.constants.threatPenalty10 = 0
  /\ eng.config.constants.allyBonus10 = 0
  /\ eng.config.constants.preyBonus10 = 0

\* the cells that were alive before the last step and are empty after it
Died == {idx \in 0..(Size - 1) : Previous.types[idx] # 0 /\ eng.state.types[idx] = 0}

\* C13: with the three interaction constants 0, a cell that is alive with
\* energy e >= 1 and age a in some state of the run, no neighbour of it alive,
\* has k ticks later the same type, energy e - k and age a + k for k < e, and
\* for k = e it is empty with energy10 = 0 and age = 0, and the step that
\* emptied it counted it among its deaths.
C13_AgingTrajectory ==
  (Running /\ NoInteraction) =>
    \A i \in 1..Len(eng.trace), idx \in 0..(Size - 1) :
      LET start == eng.trace[i]
          k == Len(eng.trace) - i
          e == start.energy10[idx]
          a == start.age[idx]
      IN (start.types[idx] # 0 /\ Isolated(start, idx) /\ e >= 1) =>
           /\ k < e =>
                /\ eng.state.types[idx] = start.types[idx]
                /\ eng.state.energy10[idx] = e - k
                /\ eng.state.age[idx] = a + k
           /\ k = e =>
                /\ eng.state.types[idx] = 0
                /\ eng.state.energy10[idx] = 0
                /\ eng.state.age[idx] = 0
                /\ idx \in Died
                /\ eng.result.metrics.deaths = Cardinality(Died)

\* an isolated cell of the initial state with energy 2 that aged one tick and
\* died at the second
C13_Witness ==
  /\ Running /\ NoInteraction /\ eng.tick = 2
  /\ \E idx \in 0..(Size - 1) :
       /\ eng.trace[1].types[idx] # 0 /\ Isolated(eng.trace[1], idx)
       /\ eng.trace[1].energy10[idx] = 2
       /\ eng.trace[2].types[idx] # 0 /\ eng.trace[2].age[idx] = 1
       /\ idx \in Died /\ eng.result.metrics.deaths >= 1

\* the number of neighbour slots of idx that held type t before the last step
Around(idx, t) == CountSlots(Topology, idx, Previous.types, {t})

\* the types that reached the reproduction threshold around idx
Eligible(idx) == {t \in 1..3 : Around(idx, t) >= eng.config.reproThreshold}

\* the cells that were empty before the last step and are alive after it
Born == {idx \in 0..(Size - 1) : Previous.types[idx] = 0 /\ eng.state.types[idx] # 0}

\* C14: after a step, a cell that was empty with exactly one type reaching
\* reproThreshold among its eight neighbour slots has that type, energy10 = spawnEnergy10
\* clamped to [0, maxEnergy10] (no drain) and age 0, and is counted among the
\* births of the step; a cell that was empty with no type reaching the
\* threshold is empty with energy10 = 0 and age = 0.
C14_BirthThreshold ==
  (Running /\ eng.tick >= 1) =>
    /\ eng.result.metrics.births = Cardinality(Born)
    /\ \A idx \in 0..(Size - 1) :
         Previous.types[idx] = 0 =>
           /\ \A t \in 1..3 :
                Eligible(idx) = {t} =>
                  /\ eng.state.types[idx] = t
                  /\ eng.state.energy10[idx] =
                       Min(eng.config.constants.maxEnergy10,
                           Max(0, eng.config.constants.spawnEnergy10))
                  /\ eng.state.age[idx] = 0
                  /\ idx \in Born
           /\ Eligible(idx) = {} =>
                /\ eng.state.types[idx] = 0
                /\ eng.state.energy10[idx] = 0
                /\ eng.state.age[idx] = 0

\* a step with a birth at exactly the threshold, beside a cell one short of it
C14_Witness ==
  /\ Running /\ eng.tick >= 1
  /\ eng.config.reproThreshold = 2 /\ eng.config.constants.spawnEnergy10 = 1
  /\ \E idx \in Born, t \in 1..3 :
       /\ Eligible(idx) = {t} /\ Around(idx, t) = 2
       /\ eng.state.types[idx] = t /\ eng.state.energy10[idx] = 1
  /\ \E idx \in 0..(Size - 1), t \in 1..3 :
       /\ Previous.types[idx] = 0 /\ Eligible(idx) = {} /\ Around(idx, t) = 1
       /\ eng.state.types[idx] = 0

\* C15: in the initial state of a simulator built from a normalized config
\* and in every state it steps to, every cell has a type in 0..3 and
\* energy10 <= maxEnergy10, and every empty cell has energy10 = 0 and age = 0.
C15_StateInvariant ==
  Running =>
    \A idx \in 0..(Size - 1) :
      /\ eng.state.types[idx] \in 0..3
      /\ eng.state.energy10[idx] <= eng.config.constants.maxEnergy10
      /\ eng.state.types[idx] = 0 =>
           (eng.state.energy10[idx] = 0 /\ eng.state.age[idx] = 0)

\* a stepped state with a cell at full energy, a cell below it, an empty cell
\* left by a death and a newborn
C15_Witness ==
  /\ Running /\ eng.tick >= 2
  /\ Died # {} /\ Born # {}
  /\ \E idx \in 0..(Size - 1) :
       /\ eng.state.types[idx] # 0 /\ Previous.types[idx] # 0
       /\ eng.state.energy10[idx] = eng.config.constants.maxEnergy10
       /\ Previous.energy10[idx] + Gain(Previous, idx) - 1
            > eng.config.constants.maxEnergy10

\* ---- vocabulary of the layout properties ------------------------------------------
Alive == {idx \in 0..(Size - 1) : eng.state.types[idx] # 0}
Of(t) == {idx \in 0..(Size - 1) : eng.state.types[idx] = t}
Columns(t) == {idx % eng.config.width : idx \in Of(t)}
Rows(t) == {idx \div eng.config.width : idx \in Of(t)}
\* S is three consecutive numbers
Three(S) == \E low \in S : S = low..(low + 2)
BlockWorld ==
  /\ Running /\ eng.config.initMode = "single-block"
  /\ eng.config.width = 11 /\ eng.config.height = 11
  /\ eng.config.constants = DEFAULT_CONSTANTS

\* C17: the initial state of single-block init on an 11x11 grid with default
\* constants has, whatever the seed, exactly 27 alive cells, 9 of each type;
\* the cells of each type fill a bounding box of 3 columns by 3 rows; the three
\* boxes are disjoint; every alive cell has energy10 = startEnergy10 and age 0.
C17_SingleBlockLayout ==
  (BlockWorld /\ eng.tick = 0) =>
    /\ Cardinality(Alive) = 27
    /\ \A t \in 1..3 :
         /\ Cardinality(Of(t)) = 9
         /\ Three(Columns(t)) /\ Three(Rows(t))
    /\ \A t \in 1..3, u \in 1..3 :
         t # u => (Columns(t) \cap Columns(u) = {} \/ Rows(t) \cap Rows(u) = {})
    /\ \A idx \in Alive :
         /\ eng.state.energy10[idx] = eng.config.constants.startEnergy10
         /\ eng.state.age[idx] = 0

\* an 11x11 layout whose blocks are all there, two of them on a common row
\* and apart by their columns only
C17_Witness ==
  /\ BlockWorld /\ eng.tick = 0
  /\ Cardinality(Alive) = 27
  /\ \E t \in 1..3, u \in 1..3 :
       /\ t # u
       /\ Rows(t) \cap Rows(u) # {}
       /\ Columns(t) \cap Columns(u) = {}

TriadWorld ==
  /\ Running /\ eng.config.initMode = "triad"
  /\ eng.config.width = 128 /\ eng.config.height = 128
  /\ eng.config.initialAliveRatio = 200

\* two cells are the same or touch by a side or a corner
Adjacent(a, b) ==
  /\ (a % eng.config.width) - (b % eng.config.width) \in -1..1
  /\ (a \div eng.config.width) - (b \div eng.config.width) \in -1..1

\* the cells of S that can be reached from the cells of F through S
RECURSIVE Reach(_, _)
Reach(F, S) ==
  LET next == F \cup {c \in S \ F : \E f \in F : Adjacent(c, f)}
  IN IF next = F THEN F ELSE Reach(next, S)

\* S is exactly one 8-connected component
OneComponent(S) == S # {} /\ Reach({CHOOSE c \in S : TRUE}, S) = S

\* C18: the initial state of triad init on a 128x128 grid at alive ratio 0.02
\* has, whatever the seed, the cells of each of the three types in exactly one
\* 8-connected component, and more empty cells than alive ones.
C18_TriadLayout ==
  (TriadWorld /\ eng.tick = 0) =>
    /\ \A t \in 1..3 : OneComponent(Of(t))
    /\ Size - Cardinality(Alive) > Cardinality(Alive)

\* a 128x128 triad layout: 327 alive cells, 109 of each type
C18_Witness ==
  /\ TriadWorld /\ eng.tick = 0
  /\ Cardinality(Alive) = 327
  /\ \A t \in 1..3 : Cardinality(Of(t)) = 109

\* ---- the simulator object ---------------------------------------------------
Live == obj.phase = "live"

\* C21: no state handed to the caller shares storage with the simulator, so
\* whatever the caller writes into it, the simulator holds (and getState,
\* getDigest, getMetrics and step read) the state of a simulator that was
\* built from the same config, stepped as often and never written to
C21_NoAliasing ==
  Live =>
    /\ \A i \in 1..Len(obj.ret) : obj.ret[i].state # obj.state
    /\ obj.heap[obj.state] = obj.pure

\* the i-th result of consecutive steps taken from state at step count tick
StepResult(state, config, tick, i) ==
  stepState(Stepped(state, config, tick, i - 1), config,
            precomputeNeighbors(config), tick + i)

\* C22: stepMany(n) returns m = min(max(n, 1), 1000000) results, the i-th being
\* the result of the i-th of m consecutive steps, and leaves the simulator at
\* the state and tick of those m steps; the tick counter starts at 0 and
\* counts the steps, so that the k-th step is computed with tick number k
C22_StepManyIsRepeatedStep ==
  /\ \A n \in {1000000, 1000001, 2000000} : safeCount(n) = Min(Max(n, 1), 1000000)
  /\ Live => obj.tick = obj.steps
  /\ Live /\ obj.call.op = "stepMany" =>
       LET m == Min(Max(obj.call.count, 1), 1000000)
           expected(i) == StepResult(obj.call.before, obj.config, obj.call.steps, i)
       IN /\ Len(obj.ret) = m
          /\ \A i \in 1..Len(obj.ret) :
               /\ obj.heap[obj.ret[i].state] = expected(i).state
               /\ obj.ret[i].metrics = expected(i).metrics
               /\ obj.ret[i].digest = expected(i).digest
          /\ obj.steps = obj.call.steps + m
          /\ obj.heap[obj.state] = Stepped(obj.call.before, obj.config, obj.call.steps, m)

\* stepMany was given the largest count and returned results that differ, and
\* the simulator had been stepped before
C22_Witness ==
  /\ Live /\ obj.call.op = "stepMany"
  /\ obj.call.count >= 2 /\ obj.call.steps >= 1
  /\ Len(obj.ret) = obj.call.count
  /\ obj.heap[obj.ret[1].state] # obj.heap[obj.ret[2].state]
  /\ obj.ret[1].digest # obj.ret[2].digest

\* ---- C23: autoplay gating -------------------------------------------------------
\* the session's phase is running and its transport is attached and open
Gate(sid) ==
  /\ sess[sid].phase = "running"
  /\ sess[sid].socket # 0
  /\ conns[sess[sid].socket].readyState = "OPEN"

\* C23: a fire of a live autoplay interval of a session whose phase is running
\* and whose transport is attached and open advances the simulator by one tick
\* and sends that transport one frame, the frame of the new tick; a fire in any
\* other situation leaves the simulator and the cached frame as they are and
\* sends nothing. (A fire never advances more than one tick, whatever was
\* skipped before.)
C23_AutoplayGating ==
  \A sid \in SessIds :
    live[sid] > 0 =>
      LET pre == sess[sid]
          x == onInterval(CtxOf(sid))
      IN IF Gate(sid)
         THEN /\ x.S.simulator = [pre.simulator EXCEPT !.tick = @ + 1]
              /\ x.out = <<[to |-> pre.socket,
                            m |-> FrameMsg([runId |-> pre.runId,
                                            tick |-> pre.simulator.tick + 1,
                                            seed |-> pre.simulator.seed])]>>
              /\ x.S.lastFrame = x.out[1].m.frame
         ELSE /\ x.S.simulator = pre.simulator
              /\ x.S.lastFrame = pre.lastFrame
              /\ x.out = <<>>

\* an interval has just fired and advanced a running session that an earlier
\* transport, closed since, had been attached to
C23_Witness ==
  /\ ev.kind = "interval"
  /\ \E sid \in SessIds :
       /\ Gate(sid) /\ live[sid] > 0
       /\ sess[sid].simulator.tick >= 1
       /\ sess[sid].lastFrame.tick = sess[sid].simulator.tick
       /\ \E ws \in ConnIds : conns[ws].sid = sid /\ conns[ws].readyState = "CLOSED"

\* ---- C24: the digest ---------------------------------------------------------------
\* C24: two states of the same grid size have equal digests if and only if
\* their types, energy10 and age arrays are equal element by element.
C24_DigestOracle ==
  probe.phase = "done" /\ probe.fn = "digestState" =>
    (probe.result[1] = probe.result[2] <=> probe.a = probe.b)

\* ---- C25: births and deaths in the metrics ------------------------------------------
\* the cells step t filled, and the cells it emptied
BornAt(t) ==
  {idx \in 0..(Size - 1) : eng.trace[t].types[idx] = 0 /\ eng.trace[t + 1].types[idx] # 0}
DiedAt(t) ==
  {idx \in 0..(Size - 1) : eng.trace[t].types[idx] # 0 /\ eng.trace[t + 1].types[idx] = 0}

RECURSIVE BirthsUpTo(_)
BirthsUpTo(t) == IF t = 0 THEN 0 ELSE Cardinality(BornAt(t)) + BirthsUpTo(t - 1)

RECURSIVE DeathsUpTo(_)
DeathsUpTo(t) == IF t = 0 THEN 0 ELSE Cardinality(DiedAt(t)) + DeathsUpTo(t - 1)

\* C25 (as claimed): the births and deaths in the metrics of the result of the
\* t-th step are the numbers of births and deaths of steps 1..t together.
C25_CumulativeMetrics ==
  (Running /\ eng.tick >= 1) =>
    /\ eng.result.metrics.births = BirthsUpTo(eng.tick)
    /\ eng.result.metrics.deaths = DeathsUpTo(eng.tick)

\* C25 (amended): the births and deaths in the metrics of the result of the
\* t-th step are the numbers of cells that step t alone filled and emptied.
C25_PerTickMetrics ==
  (Running /\ eng.tick >= 1) =>
    /\ eng.result.metrics.births = Cardinality(BornAt(eng.tick))
    /\ eng.result.metrics.deaths = Cardinality(DiedAt(eng.tick))

\* a step with births and deaths, in different numbers, after earlier steps
\* that had births and deaths too
C25_Witness ==
  /\ Running /\ eng.tick >= 2
  /\ BornAt(eng.tick) # {} /\ DiedAt(eng.tick) # {}
  /\ Cardinality(BornAt(eng.tick)) # Cardinality(DiedAt(eng.tick))
  /\ BirthsUpTo(eng.tick - 1) > 0 /\ DeathsUpTo(eng.tick - 1) > 0

\* ---- C26: single writer per session -----------------------------------------------
\* connection ws can still deliver a message, and is not the transport
\* attached to its session (it was replaced or detached)
Stale(ws) == CanReceive(ws) /\ sess[conns[ws].sid].socket # ws

\* C26: a control message arriving on a connection that is not the transport
\* attached to its session changes nothing in the session: phase, run id,
\* config, simulator and tick, cached frame and autoplay timer stay as they are.
C26_SingleWriter ==
  \A ws \in ConnIds, raw \in RawPayloads :
    Stale(ws) =>
      LET sid == conns[ws].sid
          x == onMessage(CtxOf(sid), raw)
      IN /\ x.S.phase = sess[sid].phase
         /\ x.S.runId = sess[sid].runId
         /\ x.S.config = sess[sid].config
         /\ x.S.simulator = sess[sid].simulator
         /\ x.S.lastFrame = sess[sid].lastFrame
         /\ x.S.timer = sess[sid].timer
         /\ x.L = live[sid]

\* ---- C27: the autoplay interval ------------------------------------------------------
\* ms is 1000 / rate rounded to an integer (rate in tenths, at least 1.0)
Rounded(ms, rate) ==
  LET distance == IF ms * rate >= 10000 THEN ms * rate - 10000 ELSE 10000 - ms * rate
  IN 2 * distance <= rate

\* C27: for every tick rate r the interval is max(16, round(1000 / max(1, r)))
\* milliseconds: 500 for rate 2, 200 for rate 5, 1000 for a rate below 1, and
\* never below 16.
C27_AutoplayInterval ==
  (probe.phase = "done" /\ probe.fn = "tickIntervalMs") =>
    LET r == probe.tickRateUi
        ms == probe.result
        atLeastOne == IF r # NaN /\ r >= 10 THEN r ELSE 10
    IN /\ ms # NaN /\ ms >= 16
       /\ r # NaN =>
            /\ IF 2 * 10000 < 33 * atLeastOne THEN ms = 16 ELSE Rounded(ms, atLeastOne)
            /\ r = 20 => ms = 500
            /\ r = 50 => ms = 200
            /\ r < 10 => ms = 1000

\* ---- C28: the update of an alive cell ------------------------------------------------
\* the neighbour slots of idx that hold a type of the set wanted
SlotsOf(state, config, idx, wanted) ==
  Cardinality({k \in 1..8 : state.types[precomputeNeighbors(config)[idx][k]] \in wanted})

\* the energy the claim gives the alive cell idx after the tick
ClaimedEnergy(state, config, idx) ==
  LET type == state.types[idx]
      K == config.constants
      threats == SlotsOf(state, config, idx,
                         IF type = 1 THEN {2} ELSE IF type = 3 THEN {1} ELSE {3})
      allies == SlotsOf(state, config, idx, {type})
      prey == SlotsOf(state, config, idx,
                      IF type = 2 THEN {1} ELSE IF type = 1 THEN {3} ELSE {2})
      raw == state.energy10[idx] - threats * K.threatPenalty10 + allies * K.allyBonus10
               + prey * K.preyBonus10 - 1
  IN Max(0, Min(K.maxEnergy10, raw))

\* result is the claimed outcome of one tick for every alive cell of state
AliveUpdate(state, config, result) ==
  LET alive == {idx \in Cells(config) : state.types[idx] # 0}
  IN /\ \A idx \in alive :
          IF ClaimedEnergy(state, config, idx) = 0
          THEN /\ result.state.types[idx] = 0
               /\ result.state.energy10[idx] = 0
               /\ result.state.age[idx] = 0
          ELSE /\ result.state.types[idx] = state.types[idx]
               /\ result.state.energy10[idx] = ClaimedEnergy(state, config, idx)
               /\ result.state.age[idx] = state.age[idx] + 1
     /\ result.metrics.deaths
          = Cardinality({idx \in alive : ClaimedEnergy(state, config, idx) = 0})

\* C28: after a tick, every cell that was alive has the energy
\* clamp(energy10 - threats * threatPenalty10 + allies * allyBonus10
\* + prey * preyBonus10 - 1, 0, maxEnergy10), counted over its eight neighbour
\* slots; if that is 0 it is empty with energy10 = 0 and age = 0 and is one of
\* the deaths of the tick, otherwise it has its type, that energy and its age
\* plus 1.
C28_AliveCellUpdate ==
  (probe.phase = "done" /\ probe.fn = "stepState") =>
    AliveUpdate(probe.state, probe.config, probe.result)

\* ---- C29: the type born when several types may breed ------------------------------
\* the largest of the three neighbour counts of idx before the last step
TopCount(idx) == Max(Around(idx, 1), Max(Around(idx, 2), Around(idx, 3)))

\* the types that have the largest count around idx, in the order fire, water,
\* grass
Tied(idx) == SelectSeq(<<1, 2, 3>>, LAMBDA t : Around(idx, t) = TopCount(idx))

\* the cells that were empty before the last step with two or three types at
\* the reproduction threshold around them
Contested == {idx \in 0..(Size - 1) :
                Previous.types[idx] = 0 /\ Cardinality(Eligible(idx)) >= 2}

\* C29: after a step, a cell that was empty with two or three types reaching
\* reproThreshold around it has a type whose count is the largest of the three
\* counts: the one type with that count if there is one, and otherwise, with
\* k >= 2 types at that count, the one at index hashChoice(seed, tick, idx, 17, k)
\* of those types in the order fire, water, grass, tick being the number of the
\* tick the step computed.
C29_BirthWinner ==
  (Running /\ eng.tick >= 1) =>
    \A idx \in Contested :
      LET k == Len(Tied(idx))
          born == eng.state.types[idx]
      IN /\ born \in 1..3
         /\ Around(idx, born) = TopCount(idx)
         /\ k = 1 => born = Tied(idx)[1]
         /\ k >= 2 =>
              born = Tied(idx)[hashChoice(eng.config.seed, eng.tick, idx, 17, k) + 1]

\* a step that settled a tie of three types by the hash, not for the first of
\* them, and a tie of two types
C29_Witness ==
  /\ Running /\ eng.tick >= 1
  /\ \E idx \in Contested :
       Len(Tied(idx)) = 3 /\ eng.state.types[idx] # Tied(idx)[1]
  /\ \E idx \in Contested : Len(Tied(idx)) = 2

\* ---- C30: the neighbour table --------------------------------------------------------
\* the eight offsets of the Moore neighbourhood
Moore == {o \in {-1, 0, 1} \X {-1, 0, 1} : o # <<0, 0>>}

\* the slots of the table that belong to the offset o
SlotsFor(o) == {k \in 1..8 : OFFSETS[k] = o}

\* C30: in the neighbour table of a width x height grid every one of the eight
\* Moore offsets (ox, oy) has its slot, and for the cell (x, y) that slot holds
\* ((y + oy) mod height) * width + ((x + ox) mod width) when wrapWorld is true;
\* when it is false it holds (y + oy) * width + (x + ox) if that position is in
\* the grid and the cell's own index otherwise. Every index of the table is in
\* [0, width * height), also on grids of width or height 1 or 2.
C30_NeighborTopology ==
  (probe.phase = "done" /\ probe.fn = "precomputeNeighbors") =>
    LET width == probe.config.width
        height == probe.config.height
        table == probe.result
    IN /\ DOMAIN table = 0..(width * height - 1)
       /\ \A o \in Moore : Cardinality(SlotsFor(o)) = 1
       /\ \A x \in 0..(width - 1), y \in 0..(height - 1), o \in Moore :
          \A k \in SlotsFor(o) :
            LET idx == y * width + x
                px == x + o[1]
                py == y + o[2]
                stored == table[idx][k]
            IN /\ stored \in 0..(width * height - 1)
               /\ probe.config.wrapWorld =>
                    stored = (py % height) * width + (px % width)
               /\ ~probe.config.wrapWorld =>
                    stored = IF px \in 0..(width - 1) /\ py \in 0..(height - 1)
                             THEN py * width + px
                             ELSE idx

\* the table of a wrapped grid one cell wide, where every slot of the column
\* offsets folds onto the column itself, computed
C30_Witness ==
  /\ probe.phase = "done" /\ probe.fn = "precomputeNeighbors"
  /\ probe.config.wrapWorld /\ probe.config.width = 1 /\ probe.config.height = 2
  /\ \E k \in SlotsFor(<<-1, -1>>) : probe.result[0][k] = 1

\* ---- C31: a boundary cell is its own neighbour ---------------------------------------
\* the position of the neighbour of idx at the offset o, which may be off the grid
Beside(idx, o) == <<(idx % eng.config.width) + o[1], (idx \div eng.config.width) + o[2]>>

OnGrid(p) == p[1] \in 0..(eng.config.width - 1) /\ p[2] \in 0..(eng.config.height - 1)

\* the directions in which idx has no cell beside it
OffGrid(idx) == {o \in Moore : ~OnGrid(Beside(idx, o))}

\* the cells beside idx, one per direction, that held a type of wanted before
\* the last step
Inside(idx, wanted) ==
  Cardinality({o \in Moore :
                 /\ OnGrid(Beside(idx, o))
                 /\ Previous.types[Beside(idx, o)[2] * eng.config.width + Beside(idx, o)[1]]
                      \in wanted})

\* C31: without wrap, after a step, a cell that was alive has the energy that
\* comes from the cells beside it plus one ally for each direction in which it
\* has no cell beside it, and no threat or prey for those directions; a cell
\* that was empty has the type that the counts of the cells beside it alone
\* give, those directions adding nothing.
C31_BoundarySelfCounting ==
  (Running /\ eng.tick >= 1 /\ ~eng.config.wrapWorld) =>
    \A idx \in 0..(Size - 1) :
      LET type == Previous.types[idx]
          K == eng.config.constants
          allies == Inside(idx, {type}) + Cardinality(OffGrid(idx))
          threats == Inside(idx, {t \in 1..3 : beats(t, type)})
          prey == Inside(idx, {t \in 1..3 : beats(type, t)})
          energy == clampInt(Previous.energy10[idx] - threats * K.threatPenalty10
                               + allies * K.allyBonus10 + prey * K.preyBonus10 - 1,
                             0, K.maxEnergy10)
      IN IF type # 0
         THEN /\ eng.state.energy10[idx] = energy
              /\ (eng.state.types[idx] = 0) = (energy = 0)
         ELSE eng.state.types[idx]
                = pickTypeFromCounts(Inside(idx, {1}), Inside(idx, {2}), Inside(idx, {3}),
                                     eng.config.reproThreshold, eng.config.seed,
                                     eng.tick, idx)

\* a corner cell with no alive cell beside it that gained energy from itself,
\* and an empty boundary cell that stayed empty
C31_Witness ==
  /\ Running /\ eng.tick >= 1 /\ ~eng.config.wrapWorld
  /\ eng.config.constants.allyBonus10 > 0
  /\ \E idx \in 0..(Size - 1) :
       /\ Previous.types[idx] # 0 /\ Cardinality(OffGrid(idx)) = 5
       /\ Inside(idx, 1..3) = 0
       /\ eng.state.energy10[idx] > Previous.energy10[idx]
  /\ \E idx \in 0..(Size - 1) :
       /\ Previous.types[idx] = 0 /\ OffGrid(idx) # {} /\ eng.state.types[idx] = 0

\* ---- C32: no stale autoplay timer ------------------------------------------------
\* the live interval handles of session object s that the session no longer
\* holds in its timer field, so that no clearTimer can reach them
Unheld(L, session) == L - (IF session.timer THEN 1 ELSE 0)

\* what the handler of raw would decide on session object s
DecisionOn(s, raw) ==
  IF parseControlMessage(raw) = NullMsg THEN "null"
  ELSE decideControl(Snapshot(sess[s]), parseControlMessage(raw)).kind

\* C32: a session object never has more than one live autoplay timer, and
\* every live one is the one the session holds; every message handler and
\* every close handler leaves it so: after a pause, a stop, a reset of a
\* session that is not running or has no open transport, and the close of
\* the session's transport, no timer of the session is live, and after
\* start_new, resume and a reset while running only the timer just created
\* is.
C32_NoStaleTimer ==
  \A s \in SessIds :
    /\ live[s] \in 0..1
    /\ Unheld(live[s], sess[s]) = 0
    /\ \A raw \in RawPayloads :
         LET x == onMessage(CtxOf(s), raw)
             kind == DecisionOn(s, raw)
         IN /\ x.L \in 0..1
            /\ Unheld(x.L, x.S) = 0
            /\ kind \in {"pause", "stop"} => x.L = 0
            /\ (kind = "reset" /\ ~(sess[s].phase = "running" /\ SocketOpen(CtxOf(s))))
                 => x.L = 0
            /\ (kind \in {"start_new", "resume", "reset"} /\ x.L = 1) =>
                 /\ x.S.phase = "running" /\ SocketOpen(x)
                 /\ x.S.timer
    /\ \A ws \in ConnIds :
         (conns[ws].sid = s /\ conns[ws].readyState = "CLOSING") =>
           LET x == onClose(CtxOf(s), ws)
           IN /\ Unheld(x.L, x.S) = 0
              /\ sess[s].socket = ws => x.L = 0

\* a reset handled on a running session: the session has one live timer, the
\* one it holds, and the simulator is at tick 0
C32_Witness ==
  /\ ev.kind = "message" /\ ev.raw.type = "reset"
  /\ \E s \in SessIds :
       /\ conns[ev.conn].sid = s
       /\ live[s] = 1 /\ sess[s].timer
       /\ sess[s].phase = "running" /\ sess[s].simulator.tick = 0
       /\ sess[s].runId # 0

\* ---- C33: the run fields go together -----------------------------------------------
\* which of runId, backend, config and simulator a session has
RunFields(session) ==
  <<session.runId # 0, session.backend # "null", session.config # NoConfig,
    session.simulator # NoSim>>

AllPresent(session) == RunFields(session) = <<TRUE, TRUE, TRUE, TRUE>>
AllAbsent(session) == RunFields(session) = <<FALSE, FALSE, FALSE, FALSE>>

NeighboursOf(idx) == {Topology[idx][k] : k \in 1..8}

\* state with cell j given another energy and age and, where j is no
\* neighbour of idx, the type t
Elsewhere(state, idx, j, t) ==
  [types |-> [state.types EXCEPT ![j] = IF j \in NeighboursOf(idx) THEN @ ELSE t],
   energy10 |-> [state.energy10 EXCEPT ![j] = IF @ = 1 THEN 2 ELSE 1],
   age |-> [state.age EXCEPT ![j] = @ + 1]]

\* state with every cell but idx given another energy and age, and every
\* cell that is no neighbour of idx the type t
AllElsewhere(state, idx, t) ==
  [types |-> [j \in 0..(Size - 1) |->
                IF j = idx \/ j \in NeighboursOf(idx) THEN state.types[j] ELSE t],
   energy10 |-> [j \in 0..(Size - 1) |->
                   IF j = idx THEN state.energy10[j] ELSE 3 - state.energy10[j]],
   age |-> [j \in 0..(Size - 1) |-> IF j = idx THEN state.age[j] ELSE state.age[j] + 2]]

\* the type, energy10 and age the tick gives cell idx of state
CellAfter(state, idx) ==
  LET cell == nextCell(state, eng.config, Topology, eng.tick, idx)
  IN <<cell.type, cell.energy10, cell.age>>

\* a step of the simulator object leaves the arrays it started from as they were
InputKept ==
  (obj.phase = "live" /\ obj'.phase = "live" /\ obj'.call.op \in {"step", "stepMany"})
    => obj'.heap[obj.state] = obj.heap[obj.state]

FrameTicks(out) ==
  LET frames == SelectSeq(out, LAMBDA o : o.m.type = "frame")
  IN [i \in 1..Len(frames) |-> frames[i].m.frame.tick]

\* the number of ticks a step payload asks for: max(1, floor(ticks ?? 1))
Asked(raw) == IF raw.ticks2 = NoTicks THEN 1 ELSE Max(1, raw.ticks2 \div 2)

\* what the handler of the step payload raw does on session object s
StepOutcome(s, raw) ==
  LET x == onMessage(CtxOf(s), raw)
      tick == sess[s].simulator.tick
      n == Asked(raw)
  IN /\ x.S.simulator.tick = tick + n
     /\ FrameTicks(x.out) = [i \in 1..n |-> tick + i]
     /\ x.S.lastFrame.tick = tick + n
     /\ x.S.runId = sess[s].runId /\ x.S.phase = sess[s].phase
     /\ x.S.timer = sess[s].timer /\ x.L = live[s]

\* C35: a step message handled on a session with an active run advances the
\* simulator by max(1, floor(ticks ?? 1)) ticks, sends as many frames, with
\* consecutive ticks ending at the new tick, and leaves the runId, the phase
\* and the timer as they were.
C35_StepMessage ==
  \A ws \in ConnIds, raw \in RawPayloads :
    (CanReceive(ws) /\ raw.type = "step" /\ hasRun(sess[conns[ws].sid])) =>
      StepOutcome(conns[ws].sid, raw)

\* ---- C36: single-block init on any grid ----------------------------------------------
BlockInit == Running /\ eng.config.initMode = "single-block" /\ eng.tick = 0

\* C36: the initial state of single-block init on a grid of at least 3 cells
\* has, whatever the seed, at least one cell of each of the three types, also
\* where the three blocks were not painted, and every alive cell has
\* energy10 = startEnergy10 and age 0.
C36_SingleBlockFallback ==
  (BlockInit /\ Size >= 3) =>
    /\ \A t \in 1..3 : Of(t) # {}
    /\ \A idx \in Alive :
         /\ eng.state.energy10[idx] = eng.config.constants.startEnergy10
         /\ eng.state.age[idx] = 0

\* a grid of one row and three cells, each cell of another type by the
\* fallback alone
C36_Witness ==
  /\ BlockInit /\ eng.config.height = 1 /\ Size = 3
  /\ \A t \in 1..3 : Cardinality(Of(t)) = 1
  /\ \A idx \in Alive : eng.state.energy10[idx] = 7

\* ---- C37: the cached last frame -----------------------------------------------------
\* C37: a session object with a run has a cached last frame that carries its
\* runId and the tick of its simulator; one without a run has none, and a
\* connection that attaches to it is sent no frame.
C37_LastFrameCache ==
  /\ \A s \in SessIds :
       IF hasRun(sess[s])
       THEN /\ sess[s].lastFrame # NoFrame
            /\ sess[s].lastFrame.runId = sess[s].runId
            /\ sess[s].lastFrame.tick = sess[s].simulator.tick
       ELSE sess[s].lastFrame = NoFrame
  /\ \A c \in ClientIds :
       (CanConnect(c) /\ sessions[c] # 0 /\ ~hasRun(sess[sessions[c]])) =>
         FrameTicks(onConnection(c, nextConn).out) = <<>>

\* a client that reconnected after its run was stopped: the session it is
\* attached to has no run and no cached frame
C37_Witness ==
  /\ ev.kind = "connection" /\ ev.conn >= 2
  /\ nextSid = 2 /\ nextRun = 2
  /\ sess[1].socket = ev.conn
  /\ ~hasRun(sess[1]) /\ sess[1].lastFrame = NoFrame

\* ---- C38: the timer and the session state ------------------------------------------
\* session object s has a run, is running and has an open transport attached
TimerDue(s) == hasRun(sess[s]) /\ sess[s].phase = "running" /\ SocketOpen(CtxOf(s))

\* the last step was a handler of the bridge (a transport that leaves OPEN
\* runs none)
HandlerDone == ev.kind \in {"connection", "message", "close", "interval", "timeout"}

\* C38: when a handler has completed, the autoplay timer of a session object
\* is live exactly if the session has a run, its phase is running and an open
\* transport is attached.
C38_TimerMatchesState ==
  HandlerDone => \A s \in SessIds : (live[s] = 1) = TimerDue(s)

\* ---- C39: the energy of alive cells --------------------------------------------------
\* the cells that were alive before the last step and are alive after it
Survived == {idx \in 0..(Size - 1) : Previous.types[idx] # 0 /\ eng.state.types[idx] # 0}

\* C39 (as claimed): in the initial state and in every state stepped to, every
\* alive cell has energy10 >= 1, whatever startEnergy10 and spawnEnergy10 are.
C39_AliveHaveEnergy ==
  Running => \A idx \in Alive : eng.state.energy10[idx] >= 1

\* C39 (amended): every alive cell of the initial state has energy10 =
\* startEnergy10, every cell born in a step has energy10 = spawnEnergy10
\* clamped to [0, maxEnergy10], either of which may be 0, and every cell that
\* was alive before a step and is alive after it has energy10 >= 1.
C39_SurvivorsHaveEnergy ==
  Running =>
    /\ eng.tick = 0 =>
         \A idx \in Alive : eng.state.energy10[idx] = eng.config.constants.startEnergy10
    /\ eng.tick >= 1 =>
         /\ \A idx \in Born :
              eng.state.energy10[idx]
                = clampInt(eng.config.constants.spawnEnergy10, 0,
                           eng.config.constants.maxEnergy10)
         /\ \A idx \in Survived : eng.state.energy10[idx] >= 1

\* a step after which a newborn cell is alive with no energy beside a cell
\* that survived the step
C39_Witness ==
  /\ Running /\ eng.tick >= 1 /\ eng.config.constants.spawnEnergy10 = 0
  /\ \E idx \in Born : eng.state.energy10[idx] = 0
  /\ Survived # {}

\* ---- C40: the age of a cell that survives ---------------------------------------
\* C40: a cell that is alive before and after a tick has after it an age one
\* greater than before, whatever its age was, so that its age is the number
\* of ticks it has survived, beyond 65535 too.
C40_AgeCountsTicks ==
  (probe.phase = "done" /\ probe.fn = "stepState") =>
    \A idx \in Cells(probe.config) :
      (probe.state.types[idx] # 0 /\ probe.result.state.types[idx] # 0) =>
        probe.result.state.age[idx] = probe.state.age[idx] + 1
====
